---- MODULE Spec2Model ----
(***************************************************************************)
(* Model of the PageIndex core (crate `rust_page_index`):                  *)
(*   - tree.rs         RawTocItem::get_page_number, build_tree_from_toc,   *)
(*                     add_to_tree, fix_end_indices, TreeNode, DocumentTree*)
(*   - persistence.rs  SaveFormat::from_path, save_tree, load_tree         *)
(* Strings are sequences of one-character strings, so that prefix tests,   *)
(* trimming, splitting and number parsing are computed as the code does.   *)
(***************************************************************************)
EXTENDS Integers, Sequences, FiniteSets, TLC

(***************************************************************************)
(* Bounds of the model.                                                    *)
(***************************************************************************)
\* nesting depth of the deepest tree that is saved and loaded
MaxDepth == 5
\* longest descriptor list handed to build_tree_from_toc
MaxItems == 3
\* largest page number a descriptor refers to
MaxPage == 3
\* largest page number tried by the page-reference specification
MaxRefPage == 10
\* most files that exist at a time under the format paths
MaxFiles == 2
\* longest list of sections for which every list of ranks is replied
MaxResults == 3
\* largest top_k below the default that a search is configured with
MaxTopK == 2
\* most calls that go through the collaborator
MaxCalls == 2
\* longest text a Document constructor is given
MaxText == 4
\* most run_pageindex calls at a time, and most calls in all
MaxTasks == 2
MaxRuns == 3

(***************************************************************************)
(* Option<T>: None / Some(v).                                              *)
(***************************************************************************)
None == [some |-> FALSE, val |-> 0]
\* Option<String>::None
NoneStr == [some |-> FALSE, val |-> <<>>]
Some(v) == [some |-> TRUE, val |-> v]
IsSome(o) == o.some
UnwrapOr(o, d) == IF o.some THEN o.val ELSE d

(***************************************************************************)
(* Strings as character sequences.                                         *)
(***************************************************************************)
DigitChars == <<"0", "1", "2", "3", "4", "5", "6", "7", "8", "9">>

IsDigit(c) == \E i \in 1..10 : DigitChars[i] = c

DigitVal(c) == (CHOOSE i \in 1..10 : DigitChars[i] = c) - 1

\* format!("{}", n) for an unsigned integer
RECURSIVE ToDigits(_)
ToDigits(n) ==
    IF n < 10 THEN <<DigitChars[n + 1]>>
    ELSE ToDigits(n \div 10) \o <<DigitChars[(n % 10) + 1]>>

RECURSIVE DigitsValue(_, _)
DigitsValue(s, acc) ==
    IF s = <<>> THEN acc
    ELSE DigitsValue(Tail(s), acc * 10 + DigitVal(Head(s)))

\* str::parse::<usize>().ok(): an optional '+', then one or more decimal
\* digits and nothing else.
ParseUsize(s) ==
    LET body == IF s # <<>> /\ Head(s) = "+" THEN Tail(s) ELSE s
    IN  IF body # <<>> /\ \A i \in 1..Len(body) : IsDigit(body[i])
        THEN Some(DigitsValue(body, 0))
        ELSE None

\* str::starts_with
StartsWith(s, p) == Len(s) >= Len(p) /\ SubSeq(s, 1, Len(p)) = p

\* str::trim_start_matches(prefix): strips the prefix repeatedly
RECURSIVE TrimStartMatches(_, _)
TrimStartMatches(s, p) ==
    IF p # <<>> /\ StartsWith(s, p)
    THEN TrimStartMatches(SubSeq(s, Len(p) + 1, Len(s)), p)
    ELSE s

\* str::trim_end_matches(char): strips every trailing occurrence
RECURSIVE TrimEndMatches(_, _)
TrimEndMatches(s, c) ==
    IF s # <<>> /\ s[Len(s)] = c
    THEN TrimEndMatches(SubSeq(s, 1, Len(s) - 1), c)
    ELSE s

\* str::split(char): always yields at least one piece
RECURSIVE SplitAcc(_, _, _, _)
SplitAcc(s, c, cur, out) ==
    IF s = <<>> THEN Append(out, cur)
    ELSE IF Head(s) = c THEN SplitAcc(Tail(s), c, <<>>, Append(out, cur))
    ELSE SplitAcc(Tail(s), c, Append(cur, Head(s)), out)

Split(s, c) == SplitAcc(s, c, <<>>, <<>>)

\* the literal "<physical_index_"
PhysicalIndexPrefix ==
    <<"<", "p", "h", "y", "s", "i", "c", "a", "l", "_", "i", "n", "d", "e", "x", "_">>

\* the page-boundary marker "<physical_index_N>"
Marker(n) == PhysicalIndexPrefix \o ToDigits(n) \o <<">">>

(***************************************************************************)
(* serde_json::Value, as far as get_page_number tells the variants apart.  *)
(***************************************************************************)
JNumber(n) == [kind |-> "number", n |-> n, s |-> <<>>]
JString(s) == [kind |-> "string", n |-> 0, s |-> s]
JBool == [kind |-> "bool", n |-> 0, s |-> <<>>]
\* Option<serde_json::Value>::None (field absent or null)
NoneValue == [some |-> FALSE, val |-> [kind |-> "null", n |-> 0, s |-> <<>>]]

\* Number::as_u64: only a non-negative integer has one
AsU64(v) == IF v.n >= 0 THEN Some(v.n) ELSE None

\* get_page_number that forgets the closing '>' of the marker (mutant)
get_page_number_no_trim_end(item) ==
    LET pi == item.physical_index IN
    IF ~pi.some THEN None
    ELSE IF pi.val.kind = "number" THEN AsU64(pi.val)
    ELSE IF pi.val.kind = "string" THEN
        IF StartsWith(pi.val.s, PhysicalIndexPrefix)
        THEN ParseUsize(TrimStartMatches(pi.val.s, PhysicalIndexPrefix))
        ELSE ParseUsize(pi.val.s)
    ELSE None

\* RawTocItem::get_page_number
get_page_number(item) ==
    LET pi == item.physical_index IN
    IF ~pi.some THEN None
    ELSE IF pi.val.kind = "number" THEN AsU64(pi.val)
    ELSE IF pi.val.kind = "string" THEN
        IF StartsWith(pi.val.s, PhysicalIndexPrefix)
        THEN ParseUsize(TrimEndMatches(
                 TrimStartMatches(pi.val.s, PhysicalIndexPrefix), ">"))
        ELSE ParseUsize(pi.val.s)
    ELSE None

RawTocItem(structure, title, physical_index) ==
    [structure |-> structure, title |-> title, physical_index |-> physical_index]

(***************************************************************************)
(* TreeNode and the TOC-to-tree builder (tree.rs).                         *)
(***************************************************************************)
\* TreeNode::new
TreeNode_new(title, start_index, end_index) ==
    [title |-> title, structure |-> NoneStr, start_index |-> start_index,
     end_index |-> end_index, nodes |-> <<>>, summary |-> NoneStr,
     node_id |-> NoneStr]

\* add_child with the child inserted in front (mutant)
add_child_front(parent, child) == [parent EXCEPT !.nodes = <<child>> \o @]

\* TreeNode::add_child
add_child(parent, child) == [parent EXCEPT !.nodes = Append(@, child)]

\* structure.split('.').filter_map(|s| s.parse().ok()).collect()
RECURSIVE FilterMapParse(_)
FilterMapParse(parts) ==
    IF parts = <<>> THEN <<>>
    ELSE LET r == ParseUsize(Head(parts)) IN
         IF r.some THEN <<r.val>> \o FilterMapParse(Tail(parts))
         ELSE FilterMapParse(Tail(parts))

StructureIndices(structure) == FilterMapParse(Split(structure, "."))

\* an end_index that forgets total_pages for the last descriptor (mutant)
EndIndexOf_no_total(items, i, total_pages) ==
    LET next == IF i + 1 <= Len(items) THEN get_page_number(items[i + 1]) ELSE None
    IN  IF next.some
        THEN (IF next.val > 1 THEN next.val - 1 ELSE next.val)
        ELSE 0

\* the end_index computed in the first loop of build_tree_from_toc
EndIndexOf(items, i, total_pages) ==
    LET next == IF i + 1 <= Len(items) THEN get_page_number(items[i + 1]) ELSE None
    IN  IF next.some
        THEN (IF next.val > 1 THEN next.val - 1 ELSE next.val)
        ELSE total_pages

\* first loop of build_tree_from_toc: one (indices, node) pair per item
ConvertItems(items, total_pages) ==
    [i \in 1..Len(items) |->
        LET item == items[i]
            start_index == UnwrapOr(get_page_number(item), 1)
            node == TreeNode_new(item.title, start_index,
                                 EndIndexOf(items, i, total_pages))
        IN  IF item.structure.some
            THEN [indices |-> StructureIndices(item.structure.val),
                  node |-> [node EXCEPT !.structure = item.structure]]
            ELSE [indices |-> <<i>>, node |-> node]]

\* add_to_tree: returns the parent with the node attached below it
RECURSIVE add_to_tree(_, _, _)
add_to_tree(parent, remaining_indices, node) ==
    IF Len(remaining_indices) <= 1 THEN add_child(parent, node)
    ELSE IF parent.nodes # <<>>
    THEN [parent EXCEPT !.nodes[Len(parent.nodes)] =
              add_to_tree(parent.nodes[Len(parent.nodes)],
                          Tail(remaining_indices), node)]
    ELSE add_child(parent, node)

\* second loop that makes every node a root (mutant)
PlaceOne_flat(st, entry) == [st EXCEPT !.nodes = Append(@, entry.node)]

\* one iteration of the second loop of build_tree_from_toc.  The slice
\* &indices[1..] of an empty index vector is out of range and panics.
PlaceOne(st, entry) ==
    IF st.panicked THEN st
    ELSE IF Len(entry.indices) = 1
    THEN [st EXCEPT !.nodes = Append(@, entry.node)]
    ELSE IF st.nodes # <<>>
    THEN IF Len(entry.indices) = 0
         THEN [st EXCEPT !.panicked = TRUE]
         ELSE [st EXCEPT !.nodes[Len(st.nodes)] =
                   add_to_tree(st.nodes[Len(st.nodes)], Tail(entry.indices),
                               entry.node)]
    ELSE [st EXCEPT !.nodes = Append(@, entry.node)]

\* the second loop after its first k iterations
RECURSIVE PlaceFirst(_, _)
PlaceFirst(processed, k) ==
    IF k = 0 THEN [panicked |-> FALSE, nodes |-> <<>>]
    ELSE PlaceOne(PlaceFirst(processed, k - 1), processed[k])

RECURSIVE MaxEnd(_, _)
MaxEnd(nodes, acc) ==
    IF nodes = <<>> THEN acc
    ELSE MaxEnd(Tail(nodes),
                IF Head(nodes).end_index > acc THEN Head(nodes).end_index ELSE acc)

\* fix_end_indices that looks at the direct children only (mutant)
fix_end_indices_shallow(node) ==
    IF node.nodes # <<>>
    THEN LET max_end == MaxEnd(Tail(node.nodes), node.nodes[1].end_index)
         IN  [node EXCEPT !.end_index = IF max_end > @ THEN max_end ELSE @]
    ELSE node

\* fix_end_indices
RECURSIVE fix_end_indices(_)
fix_end_indices(node) ==
    LET fixed == [i \in 1..Len(node.nodes) |-> fix_end_indices(node.nodes[i])]
    IN  IF fixed # <<>>
        THEN LET max_end == MaxEnd(Tail(fixed), fixed[1].end_index)
             IN  [node EXCEPT !.nodes = fixed,
                              !.end_index = IF max_end > @ THEN max_end ELSE @]
        ELSE node

\* build_tree_from_toc without its third loop (mutant)
FixAll_skip(nodes) == nodes

\* third loop of build_tree_from_toc
FixAll(nodes) == [i \in 1..Len(nodes) |-> fix_end_indices(nodes[i])]

\* build_tree_from_toc: [panicked, nodes]
build_tree_from_toc(items, total_pages) ==
    IF items = <<>> THEN [panicked |-> FALSE, nodes |-> <<>>]
    ELSE LET st == PlaceFirst(ConvertItems(items, total_pages), Len(items))
         IN  IF st.panicked THEN st
             ELSE [st EXCEPT !.nodes = FixAll(st.nodes)]

(***************************************************************************)
(* State.                                                                  *)
(*   items, total_pages  the arguments of build_tree_from_toc              *)
(*   processed           the (indices, node) pairs of its first loop       *)
(*   placed              the forest after its second loop, before fix-up   *)
(*   nodes               the forest it returns                             *)
(*   pc                  "input" while the descriptor list is being        *)
(*                       received, "done" after a normal return,           *)
(*                       "panicked" after a panic                          *)
(***************************************************************************)
VARIABLES items, total_pages, processed, placed, nodes, pc

(***************************************************************************)
(* State of the persistence layer (persistence.rs) and of the file system  *)
(* it works on.                                                            *)
(*   fs_dirs    the directories that exist                                 *)
(*   fs_files   path -> contents of the file at that path, if any          *)
(*   saved      path -> the tree of the last successful save_tree there    *)
(*   last       the last call: its operation, path, argument and result    *)
(***************************************************************************)
VARIABLES fs_dirs, fs_files, saved, last

(***************************************************************************)
(* State of the calls that go through the reasoning collaborator           *)
(* (search.rs, indexer.rs, llm/client.rs).                                 *)
(*   calls      the search / search_with_content / index /                 *)
(*              test_connection / complete / chat calls started            *)
(*   requests   the requests handed to the transport                       *)
(*   in_flight  the calls that wait for the collaborator: their operation, *)
(*              arguments, and whether they wait for the response or for   *)
(*              its body                                                   *)
(*   outcome    the call that returned last: its operation, arguments,     *)
(*              the collaborator's reply and the result                    *)
(***************************************************************************)
VARIABLES calls, requests, in_flight, outcome

(***************************************************************************)
(* State of the Document constructors (document.rs).                       *)
(*   constructed  the last constructor call: its operation, the text it   *)
(*                was given or read, and its result                        *)
(***************************************************************************)
VARIABLES constructed

(***************************************************************************)
(* State of the command line (main.rs).                                    *)
(*   cli        the last search command: its arguments, the collaborator's *)
(*              reply, what it printed and its result                      *)
(***************************************************************************)
VARIABLES cli

(***************************************************************************)
(* State of the benchmark runner (eval/benchmark.rs).                      *)
(*   tree_cache   fingerprint -> the cached tree and document, if any      *)
(*   readers      the run_pageindex calls that hold the cache lock shared  *)
(*   writer       the run_pageindex call that holds it exclusively, or 0   *)
(*   task         per run_pageindex call: where it is, its item, what it   *)
(*                found in the cache, the tree it works with, its result   *)
(*   history      the builds and inserts so far, in their order            *)
(***************************************************************************)
VARIABLES tree_cache, readers, writer, task, history

buildVars == <<items, total_pages, processed, placed, nodes, pc>>

persistVars == <<fs_dirs, fs_files, saved, last>>

searchVars == <<calls, requests, in_flight, outcome>>

documentVars == <<constructed>>

cliVars == <<cli>>

cacheVars == <<tree_cache, readers, writer, task, history>>

\* what the builder leaves alone, and what the persistence layer leaves alone
nonBuildVars == <<persistVars, searchVars, documentVars, cliVars, cacheVars>>
nonPersistVars == <<buildVars, searchVars, documentVars, cliVars, cacheVars>>
nonSearchVars == <<buildVars, persistVars, documentVars, cliVars, cacheVars>>
nonDocumentVars == <<buildVars, persistVars, searchVars, cliVars, cacheVars>>
nonCliVars == <<buildVars, persistVars, searchVars, documentVars, cacheVars>>
nonCacheVars == <<buildVars, persistVars, searchVars, documentVars, cliVars>>

vars == <<buildVars, persistVars, searchVars, documentVars, cliVars, cacheVars>>

\* "1", "1.1", "1.1.1" and a code without a numeric component
Code1 == <<"1">>
Code11 == <<"1", ".", "1">>
Code111 == <<"1", ".", "1", ".", "1">>
CodeX == <<"x">>
\* codes of two and three components of which one or none is a numeral
Code1X == <<"1", ".", "x">>
Code1YZ == <<"1", ".", "y", ".", "z">>
CodeXYZ == <<"x", ".", "y", ".", "z">>

\* the physical_index fields the collaborator may send: absent, a bare
\* integer, or the marker string
PageRefs ==
    {NoneValue} \cup {Some(JNumber(n)) : n \in 1..(MaxPage - 1)}
                \cup {Some(JString(Marker(MaxPage)))}

\* the descriptors the collaborator may send: every numeral code with every
\* page reference; a missing or non-numeric code with a missing page
\* reference or the last page's marker; a longer code with components
\* that are no numerals, with a missing page reference
ItemChoices ==
    ({Some(Code1), Some(Code11), Some(Code111)} \X PageRefs)
    \cup ({NoneStr, Some(CodeX)} \X {NoneValue, Some(JString(Marker(MaxPage)))})
    \cup ({Some(Code1X), Some(Code1YZ), Some(CodeXYZ)} \X {NoneValue})

\* Document::page_count() of the document being indexed
TotalPages == {1, MaxPage + 1}

BuildInit ==
    /\ items = <<>>
    /\ total_pages = 0
    /\ processed = <<>>
    /\ placed = <<>>
    /\ nodes = <<>>
    /\ pc = "input"

\* the collaborator's reply is parsed into one more RawTocItem
AddItem(structure, physical_index) ==
    /\ pc = "input"
    /\ Len(items) < MaxItems
    /\ items' = Append(items, RawTocItem(structure, Len(items) + 1, physical_index))
    /\ UNCHANGED <<total_pages, processed, placed, nodes, pc>>
    /\ UNCHANGED nonBuildVars

\* build_tree_from_toc(&items, tp)
Build(tp) ==
    /\ pc = "input"
    /\ total_pages' = tp
    /\ LET conv == IF items = <<>> THEN <<>> ELSE ConvertItems(items, tp)
           st == PlaceFirst(conv, Len(conv))
           res == build_tree_from_toc(items, tp)
       IN  /\ processed' = conv
           /\ placed' = st.nodes
           /\ nodes' = res.nodes
           /\ pc' = IF res.panicked THEN "panicked" ELSE "done"
    /\ UNCHANGED items
    /\ UNCHANGED nonBuildVars

(***************************************************************************)
(* DocumentTree and its two encodings (tree.rs, persistence.rs).           *)
(***************************************************************************)
\* DocumentTree::new
DocumentTree_new(name, root_nodes, pages) ==
    [name |-> name, nodes |-> root_nodes, total_pages |-> pages,
     description |-> NoneStr]

\* the value carried by a Result that holds no tree
NoTree == DocumentTree_new(<<>>, <<>>, 0)

\* Result<_, PageIndexError>
NoPath == [dir |-> "", file_name |-> <<>>]
Ok(v) == [ok |-> TRUE, val |-> v, err |-> "", path |-> NoPath]
Err(kind, path) == [ok |-> FALSE, val |-> NoTree, err |-> kind, path |-> path]

\* One token of a JSON text, or one field of a bincode byte stream.
Tok(t) == [t |-> t, k |-> "", s |-> <<>>, n |-> 0]
KeyTok(k) == [t |-> "key", k |-> k, s |-> <<>>, n |-> 0]
StrTok(str) == [t |-> "str", k |-> "", s |-> str, n |-> 0]
NumTok(n) == [t |-> "num", k |-> "", s |-> <<>>, n |-> n]

\* the token at position p, or an end-of-input token
At(toks, p) == IF p >= 1 /\ p <= Len(toks) THEN toks[p] ELSE Tok("eof")

RECURSIVE Flatten(_)
Flatten(seqs) == IF seqs = <<>> THEN <<>> ELSE Head(seqs) \o Flatten(Tail(seqs))

\* #[serde(skip_serializing_if = "Option::is_none")]
JsonOptStr(key, o) == IF o.some THEN <<KeyTok(key), StrTok(o.val)>> ELSE <<>>

\* #[derive(Serialize)] for TreeNode: the fields in declaration order,
\* `nodes` skipped when empty
RECURSIVE JsonTreeNode(_)
JsonTreeNode(node) ==
    <<Tok("{"), KeyTok("title"), StrTok(node.title)>>
    \o JsonOptStr("structure", node.structure)
    \o <<KeyTok("start_index"), NumTok(node.start_index),
         KeyTok("end_index"), NumTok(node.end_index)>>
    \o (IF node.nodes # <<>>
        THEN <<KeyTok("nodes"), Tok("[")>>
             \o Flatten([i \in 1..Len(node.nodes) |-> JsonTreeNode(node.nodes[i])])
             \o <<Tok("]")>>
        ELSE <<>>)
    \o JsonOptStr("summary", node.summary)
    \o JsonOptStr("node_id", node.node_id)
    \o <<Tok("}")>>

\* serde_json::to_string_pretty(tree)
to_json(tree) ==
    <<Tok("{"), KeyTok("name"), StrTok(tree.name), KeyTok("nodes"), Tok("[")>>
    \o Flatten([i \in 1..Len(tree.nodes) |-> JsonTreeNode(tree.nodes[i])])
    \o <<Tok("]"), KeyTok("total_pages"), NumTok(tree.total_pages)>>
    \o JsonOptStr("description", tree.description)
    \o <<Tok("}")>>

\* parse results: [ok, val, pos], pos being the next unread position
Parsed(v, pos) == [ok |-> TRUE, val |-> v, pos |-> pos]
ParseFail == [ok |-> FALSE, val |-> <<>>, pos |-> 0]

\* the position after the JSON value that starts at position p: a string,
\* a number, null, true, false, an array or an object
RECURSIVE JsonSkipValue(_, _)
RECURSIVE JsonSkipElements(_, _)
RECURSIVE JsonSkipMembers(_, _)
JsonSkipValue(toks, p) ==
    IF At(toks, p).t \in {"str", "num", "null", "true", "false"}
    THEN Parsed(<<>>, p + 1)
    ELSE IF At(toks, p).t = "[" THEN JsonSkipElements(toks, p + 1)
    ELSE IF At(toks, p).t = "{" THEN JsonSkipMembers(toks, p + 1)
    ELSE ParseFail

JsonSkipElements(toks, p) ==
    IF At(toks, p).t = "]" THEN Parsed(<<>>, p + 1)
    ELSE LET r == JsonSkipValue(toks, p) IN
         IF r.ok THEN JsonSkipElements(toks, r.pos) ELSE ParseFail

JsonSkipMembers(toks, p) ==
    IF At(toks, p).t = "}" THEN Parsed(<<>>, p + 1)
    ELSE IF At(toks, p).t # "key" THEN ParseFail
    ELSE LET r == JsonSkipValue(toks, p + 1) IN
         IF r.ok THEN JsonSkipMembers(toks, r.pos) ELSE ParseFail

\* the members of the object whose first key is at position p, as [k, at]:
\* the key and the position of its value, in the order of the text
RECURSIVE JsonMembers(_, _, _)
JsonMembers(toks, p, acc) ==
    IF At(toks, p).t = "}" THEN Parsed(acc, p + 1)
    ELSE IF At(toks, p).t # "key" THEN ParseFail
    ELSE LET r == JsonSkipValue(toks, p + 1) IN
         IF r.ok
         THEN JsonMembers(toks, r.pos, Append(acc, [k |-> At(toks, p).k, at |-> p + 1]))
         ELSE ParseFail

\* the positions of the elements of the array whose first element is at
\* position p
RECURSIVE JsonElements(_, _, _)
JsonElements(toks, p, acc) ==
    IF At(toks, p).t = "]" THEN Parsed(acc, p + 1)
    ELSE LET r == JsonSkipValue(toks, p) IN
         IF r.ok THEN JsonElements(toks, r.pos, Append(acc, p)) ELSE ParseFail

\* a derived struct is read from an object, whose members are matched by
\* name in any order, or from an array that has one element per field, in
\* the order of the declaration
JsonStruct(toks, p, names) ==
    IF At(toks, p).t = "{" THEN JsonMembers(toks, p + 1, <<>>)
    ELSE IF At(toks, p).t = "["
    THEN LET Named(es) ==
                 IF es.ok /\ Len(es.val) = Len(names)
                 THEN Parsed([i \in 1..Len(names) |->
                                 [k |-> names[i], at |-> es.val[i]]], es.pos)
                 ELSE ParseFail
         IN  Named(JsonElements(toks, p + 1, <<>>))
    ELSE ParseFail

\* the members that carry the key: a key the struct does not know is
\* skipped, a key that comes twice is an error
JsonFieldAt(members, key) == { i \in 1..Len(members) : members[i].k = key }

\* a required string field
JsonReqStr(toks, members, key) ==
    LET at == JsonFieldAt(members, key) IN
    IF Cardinality(at) = 1 /\ At(toks, members[CHOOSE i \in at : TRUE].at).t = "str"
    THEN Parsed(At(toks, members[CHOOSE i \in at : TRUE].at).s, 0) ELSE ParseFail

\* a required usize field
JsonReqNum(toks, members, key) ==
    LET at == JsonFieldAt(members, key) IN
    IF /\ Cardinality(at) = 1
       /\ At(toks, members[CHOOSE i \in at : TRUE].at).t = "num"
       /\ At(toks, members[CHOOSE i \in at : TRUE].at).n >= 0
    THEN Parsed(At(toks, members[CHOOSE i \in at : TRUE].at).n, 0) ELSE ParseFail

\* an Option<String> field: None when the key is missing or its value null
JsonOptStrField(toks, members, key) ==
    LET at == JsonFieldAt(members, key) IN
    IF at = {} THEN Parsed(NoneStr, 0)
    ELSE IF Cardinality(at) # 1 THEN ParseFail
    ELSE IF At(toks, members[CHOOSE i \in at : TRUE].at).t = "str"
    THEN Parsed(Some(At(toks, members[CHOOSE i \in at : TRUE].at).s), 0)
    ELSE IF At(toks, members[CHOOSE i \in at : TRUE].at).t = "null"
    THEN Parsed(NoneStr, 0)
    ELSE ParseFail

RECURSIVE JsonParseTreeNode(_, _)
RECURSIVE JsonParseNodeSeq(_, _, _)

\* a JSON array of TreeNode
JsonParseNodeArray(toks, p) ==
    IF At(toks, p).t = "[" THEN JsonParseNodeSeq(toks, p + 1, <<>>) ELSE ParseFail

\* the `nodes` field of a TreeNode without #[serde(default)] (mutant)
JsonNodesField_required(toks, members) ==
    LET at == JsonFieldAt(members, "nodes") IN
    IF Cardinality(at) = 1
    THEN JsonParseNodeArray(toks, members[CHOOSE i \in at : TRUE].at)
    ELSE ParseFail

\* the `nodes` field of a TreeNode: #[serde(default)] gives an empty vector
\* when the key is missing
JsonNodesField(toks, members) ==
    LET at == JsonFieldAt(members, "nodes") IN
    IF at = {} THEN Parsed(<<>>, 0)
    ELSE IF Cardinality(at) = 1
    THEN JsonParseNodeArray(toks, members[CHOOSE i \in at : TRUE].at)
    ELSE ParseFail

JsonParseNodeSeq(toks, p, acc) ==
    IF At(toks, p).t = "]" THEN Parsed(acc, p + 1)
    ELSE LET r == JsonParseTreeNode(toks, p) IN
         IF r.ok THEN JsonParseNodeSeq(toks, r.pos, Append(acc, r.val))
         ELSE ParseFail

\* #[derive(Deserialize)] for TreeNode
JsonParseTreeNode(toks, p) ==
    LET Fields(st) ==
            IF ~st.ok THEN ParseFail ELSE
            LET title == JsonReqStr(toks, st.val, "title")
                structure == JsonOptStrField(toks, st.val, "structure")
                start_index == JsonReqNum(toks, st.val, "start_index")
                end_index == JsonReqNum(toks, st.val, "end_index")
                children == JsonNodesField(toks, st.val)
                summary == JsonOptStrField(toks, st.val, "summary")
                node_id == JsonOptStrField(toks, st.val, "node_id")
            IN  IF title.ok /\ structure.ok /\ start_index.ok /\ end_index.ok
                   /\ children.ok /\ summary.ok /\ node_id.ok
                THEN Parsed([title |-> title.val, structure |-> structure.val,
                             start_index |-> start_index.val,
                             end_index |-> end_index.val,
                             nodes |-> children.val, summary |-> summary.val,
                             node_id |-> node_id.val], st.pos)
                ELSE ParseFail
    IN  Fields(JsonStruct(toks, p, <<"title", "structure", "start_index",
                                     "end_index", "nodes", "summary", "node_id">>))

\* the `nodes` field of a DocumentTree: required
JsonRootsField(toks, members) ==
    LET at == JsonFieldAt(members, "nodes") IN
    IF Cardinality(at) = 1
    THEN JsonParseNodeArray(toks, members[CHOOSE i \in at : TRUE].at)
    ELSE ParseFail

\* serde_json::from_str::<DocumentTree>: the whole text must be one tree
from_json(toks) ==
    LET Fields(st) ==
            IF ~st.ok \/ st.pos # Len(toks) + 1 THEN ParseFail ELSE
            LET name == JsonReqStr(toks, st.val, "name")
                roots == JsonRootsField(toks, st.val)
                pages == JsonReqNum(toks, st.val, "total_pages")
                description == JsonOptStrField(toks, st.val, "description")
            IN  IF name.ok /\ roots.ok /\ pages.ok /\ description.ok
                THEN Parsed([name |-> name.val, nodes |-> roots.val,
                             total_pages |-> pages.val,
                             description |-> description.val], st.pos)
                ELSE ParseFail
    IN  Fields(JsonStruct(toks, 1, <<"name", "nodes", "total_pages", "description">>))

\* bincode: a string, an Option<String> (a tag, then the value if any)
BinStr(str) == <<StrTok(str)>>
BinOptStr(o) == IF o.some THEN <<NumTok(1), StrTok(o.val)>> ELSE <<NumTok(0)>>

\* #[derive(Encode)] for TreeNode: every field in declaration order, a
\* vector as its length followed by its elements
RECURSIVE BinTreeNode(_)
BinTreeNode(node) ==
    BinStr(node.title) \o BinOptStr(node.structure)
    \o <<NumTok(node.start_index), NumTok(node.end_index), NumTok(Len(node.nodes))>>
    \o Flatten([i \in 1..Len(node.nodes) |-> BinTreeNode(node.nodes[i])])
    \o BinOptStr(node.summary) \o BinOptStr(node.node_id)

\* bincode::encode_to_vec(tree, config::standard())
encode_to_vec(tree) ==
    BinStr(tree.name) \o <<NumTok(Len(tree.nodes))>>
    \o Flatten([i \in 1..Len(tree.nodes) |-> BinTreeNode(tree.nodes[i])])
    \o <<NumTok(tree.total_pages)>> \o BinOptStr(tree.description)

BinReadStr(toks, p) ==
    IF At(toks, p).t = "str" THEN Parsed(At(toks, p).s, p + 1) ELSE ParseFail

BinReadNum(toks, p) ==
    IF At(toks, p).t = "num" THEN Parsed(At(toks, p).n, p + 1) ELSE ParseFail

BinReadOptStr(toks, p) ==
    IF At(toks, p) = NumTok(0) THEN Parsed(NoneStr, p + 1)
    ELSE IF At(toks, p) = NumTok(1) /\ At(toks, p + 1).t = "str"
    THEN Parsed(Some(At(toks, p + 1).s), p + 2)
    ELSE ParseFail

RECURSIVE BinDecodeTreeNode(_, _)
RECURSIVE BinDecodeNodes(_, _, _, _)

\* `count` TreeNodes, one after the other
BinDecodeNodes(toks, p, count, acc) ==
    IF count = 0 THEN Parsed(acc, p)
    ELSE LET r == BinDecodeTreeNode(toks, p) IN
         IF r.ok THEN BinDecodeNodes(toks, r.pos, count - 1, Append(acc, r.val))
         ELSE ParseFail

\* #[derive(Decode)] for TreeNode
BinDecodeTreeNode(toks, p) ==
    LET title == BinReadStr(toks, p) IN
    IF ~title.ok THEN ParseFail ELSE
    LET structure == BinReadOptStr(toks, title.pos) IN
    IF ~structure.ok THEN ParseFail ELSE
    LET start_index == BinReadNum(toks, structure.pos) IN
    IF ~start_index.ok THEN ParseFail ELSE
    LET end_index == BinReadNum(toks, start_index.pos) IN
    IF ~end_index.ok THEN ParseFail ELSE
    LET count == BinReadNum(toks, end_index.pos) IN
    IF ~count.ok THEN ParseFail ELSE
    LET children == BinDecodeNodes(toks, count.pos, count.val, <<>>) IN
    IF ~children.ok THEN ParseFail ELSE
    LET summary == BinReadOptStr(toks, children.pos) IN
    IF ~summary.ok THEN ParseFail ELSE
    LET node_id == BinReadOptStr(toks, summary.pos) IN
    IF ~node_id.ok THEN ParseFail ELSE
    Parsed([title |-> title.val, structure |-> structure.val,
            start_index |-> start_index.val, end_index |-> end_index.val,
            nodes |-> children.val, summary |-> summary.val,
            node_id |-> node_id.val], node_id.pos)

\* bincode::decode_from_slice::<DocumentTree>: bytes after the tree are
\* left unread
decode_from_slice(toks) ==
    LET name == BinReadStr(toks, 1) IN
    IF ~name.ok THEN ParseFail ELSE
    LET count == BinReadNum(toks, name.pos) IN
    IF ~count.ok THEN ParseFail ELSE
    LET roots == BinDecodeNodes(toks, count.pos, count.val, <<>>) IN
    IF ~roots.ok THEN ParseFail ELSE
    LET pages == BinReadNum(toks, roots.pos) IN
    IF ~pages.ok THEN ParseFail ELSE
    LET description == BinReadOptStr(toks, pages.pos) IN
    IF ~description.ok THEN ParseFail ELSE
    Parsed([name |-> name.val, nodes |-> roots.val, total_pages |-> pages.val,
            description |-> description.val], description.pos)

(***************************************************************************)
(* Paths, the file system and save_tree / load_tree (persistence.rs).      *)
(***************************************************************************)
Path(dir, file_name) == [dir |-> dir, file_name |-> file_name]

\* Path::extension: the part of the file name after its last '.', none when
\* there is no '.' or the only '.' is the first character
Extension(file_name) ==
    LET dots == { i \in 1..Len(file_name) : file_name[i] = "." } IN
    IF dots = {} THEN NoneStr
    ELSE LET lastDot == CHOOSE i \in dots : \A j \in dots : j <= i IN
         IF lastDot = 1 THEN NoneStr
         ELSE Some(SubSeq(file_name, lastDot + 1, Len(file_name)))

\* a selection that does not know the "bincode" suffix (mutant)
SaveFormat_from_path_bin_only(path) ==
    LET ext == Extension(path.file_name) IN
    IF ext = Some(<<"b", "i", "n">>) THEN "Bincode" ELSE "Json"

\* SaveFormat::from_path
SaveFormat_from_path(path) ==
    LET ext == Extension(path.file_name) IN
    IF ext = Some(<<"j", "s", "o", "n">>) THEN "Json"
    ELSE IF ext = Some(<<"b", "i", "n">>)
            \/ ext = Some(<<"b", "i", "n", "c", "o", "d", "e">>) THEN "Bincode"
    ELSE "Json"

\* the directories of the model: the empty parent of a bare file name, one
\* that exists, one that is missing and one that cannot be created
DirCwd == ""
DirData == "data"
DirOut == "out/idx"
DirBlocked == "ro/idx"
\* a missing directory whose own name ends in a format suffix
DirDotted == "v1.bin"

NoFile == [some |-> FALSE, val |-> <<>>]
NoSaved == [some |-> FALSE, val |-> NoTree, overwrote |-> FALSE]

\* Path::exists for a directory: the empty path does not exist
DirExists(dirs, dir) == dir \in dirs

\* Path::exists for a file path of the model
PathExists(files, path) == files[path].some

\* fs::create_dir_all: an empty path is created trivially
create_dir_all(dirs, dir) ==
    IF dir = DirCwd THEN [ok |-> TRUE, dirs |-> dirs]
    ELSE IF dir = DirBlocked THEN [ok |-> FALSE, dirs |-> dirs]
    ELSE [ok |-> TRUE, dirs |-> dirs \cup {dir}]

\* a write that keeps the old contents in front of the new ones (mutant)
fs_write_append(files, path, data) ==
    [files EXCEPT ![path] = [some |-> TRUE, val |-> @.val \o data]]

\* fs::write: creates the file or replaces its whole contents
fs_write(files, path, data) ==
    [files EXCEPT ![path] = [some |-> TRUE, val |-> data]]

\* a file can be written in the working directory or in a directory that exists
CanWrite(dirs, path) == path.dir = DirCwd \/ path.dir \in dirs

\* a save that never creates the parent directory (mutant)
save_tree_with_format_no_mkdir(dirs, files, tree, path, format) ==
    LET data == IF format = "Json" THEN to_json(tree) ELSE encode_to_vec(tree)
    IN  IF ~CanWrite(dirs, path)
        THEN [res |-> Err("Io", path), dirs |-> dirs, files |-> files]
        ELSE [res |-> Ok(NoTree), dirs |-> dirs,
              files |-> fs_write(files, path, data)]

\* save_tree_with_format: [res, dirs, files]
save_tree_with_format(dirs, files, tree, path, format) ==
    LET made == IF ~DirExists(dirs, path.dir)
                THEN create_dir_all(dirs, path.dir)
                ELSE [ok |-> TRUE, dirs |-> dirs]
        data == IF format = "Json" THEN to_json(tree) ELSE encode_to_vec(tree)
    IN  IF ~made.ok
        THEN [res |-> Err("Io", Path(path.dir, <<>>)), dirs |-> dirs, files |-> files]
        ELSE IF ~CanWrite(made.dirs, path)
        THEN [res |-> Err("Io", path), dirs |-> made.dirs, files |-> files]
        ELSE [res |-> Ok(NoTree), dirs |-> made.dirs,
              files |-> fs_write(files, path, data)]

\* save_tree
save_tree(dirs, files, tree, path) ==
    save_tree_with_format(dirs, files, tree, path, SaveFormat_from_path(path))

\* load_tree_with_format
load_tree_with_format(files, path, format) ==
    IF ~files[path].some THEN Err("Io", path)
    ELSE LET data == files[path].val
             r == IF format = "Json" THEN from_json(data)
                  ELSE decode_from_slice(data)
         IN  IF r.ok THEN Ok(r.val) ELSE Err("Serialization", NoPath)

\* a load that does not look for the file first (mutant)
load_tree_unchecked(files, path) ==
    load_tree_with_format(files, path, SaveFormat_from_path(path))

\* load_tree
load_tree(files, path) ==
    IF ~PathExists(files, path) THEN Err("IndexNotFound", path)
    ELSE load_tree_with_format(files, path, SaveFormat_from_path(path))

\* the paths trees are saved to and loaded from
Paths ==
    { Path(DirCwd, <<"a", ".", "j", "s", "o", "n">>),
      Path(DirData, <<"b", ".", "b", "i", "n">>),
      Path(DirOut, <<"c", ".", "b", "i", "n", "c", "o", "d", "e">>),
      Path(DirBlocked, <<"e", ".", "j", "s", "o", "n">>) }

\* file names whose suffix is missing, unrecognized, differently cased,
\* doubled, or which are nothing but a leading dot and a format name
FormatPaths ==
    { Path(DirCwd, <<"t">>),
      Path(DirCwd, <<"t", ".", "t", "x", "t">>),
      Path(DirCwd, <<"t", ".", "B", "I", "N">>),
      Path(DirCwd, <<".", "b", "i", "n">>),
      Path(DirCwd, <<"t", ".", "j", "s", "o", "n", ".", "b", "i", "n">>),
      Path(DirDotted, <<"t">>),
      Path(DirCwd, <<"t", ".", "b", "i", "n">>),
      Path(DirCwd, <<"t", ".", "b", "i", "n", "c", "o", "d", "e">>),
      Path(DirCwd, <<"t", ".", "j", "s", "o", "n">>) }

AllPaths == Paths \cup FormatPaths

\* a chain of nodes nested d deep; every other node carries the optional fields
RECURSIVE Chain(_)
Chain(d) ==
    LET node == TreeNode_new(ToDigits(d), 1, d) IN
    IF d = 1 THEN [node EXCEPT !.summary = Some(<<>>)]
    ELSE [node EXCEPT !.nodes = <<Chain(d - 1)>>,
                      !.structure = IF d % 2 = 0 THEN Some(Code11) ELSE NoneStr,
                      !.node_id = IF d % 2 = 1 THEN Some(ToDigits(d)) ELSE NoneStr]

\* the trees that are saved: without nodes; with childless nodes whose
\* optional fields are absent; nested MaxDepth deep with optional fields
\* present and a description
TreeChoices ==
    { DocumentTree_new(<<"E">>, <<>>, 1),
      DocumentTree_new(<<"P">>, <<TreeNode_new(<<"x">>, 1, 1),
                                  TreeNode_new(<<"y">>, 2, 2)>>, 2),
      [DocumentTree_new(<<"D">>, <<Chain(MaxDepth), TreeNode_new(<<"z">>, 1, 1)>>,
                        MaxDepth) EXCEPT !.description = Some(<<"d">>)] }

PersistInit ==
    /\ fs_dirs = {DirData}
    /\ fs_files = [p \in AllPaths |-> NoFile]
    /\ saved = [p \in AllPaths |-> NoSaved]
    /\ last = [op |-> "none", path |-> NoPath, tree |-> NoTree, res |-> Ok(NoTree)]

\* save_tree(&tree, path)
SaveTree(tree, path) ==
    LET r == save_tree(fs_dirs, fs_files, tree, path) IN
    /\ fs_dirs' = r.dirs
    /\ fs_files' = r.files
    /\ saved' = IF r.res.ok
                THEN [saved EXCEPT ![path] = [some |-> TRUE, val |-> tree,
                                              overwrote |-> fs_files[path].some]]
                ELSE saved
    /\ last' = [op |-> "save", path |-> path, tree |-> tree, res |-> r.res]
    /\ UNCHANGED nonPersistVars

\* load_tree(path)
LoadTree(path) ==
    /\ last' = [op |-> "load", path |-> path, tree |-> NoTree,
                res |-> load_tree(fs_files, path)]
    /\ UNCHANGED <<fs_dirs, fs_files, saved>>
    /\ UNCHANGED nonPersistVars

\* save_tree_with_format(&tree, path, format)
SaveTreeWithFormat(tree, path, format) ==
    LET r == save_tree_with_format(fs_dirs, fs_files, tree, path, format) IN
    /\ fs_dirs' = r.dirs
    /\ fs_files' = r.files
    /\ saved' = IF r.res.ok
                THEN [saved EXCEPT ![path] = [some |-> TRUE, val |-> tree,
                                              overwrote |-> fs_files[path].some]]
                ELSE saved
    /\ last' = [op |-> "save_with_format", path |-> path, tree |-> tree,
                res |-> r.res]
    /\ UNCHANGED nonPersistVars

\* the tree written under the format paths
FormatTree == DocumentTree_new(<<"P">>, <<TreeNode_new(<<"x">>, 1, 1)>>, 1)

\* at most MaxFiles files exist at a time
RoomFor(path) ==
    fs_files[path].some \/ Cardinality({ p \in AllPaths : fs_files[p].some }) < MaxFiles

NextFormat ==
    \/ \E p \in FormatPaths : RoomFor(p) /\ SaveTree(FormatTree, p)
    \/ \E p \in FormatPaths, f \in {"Json", "Bincode"} :
          RoomFor(p) /\ SaveTreeWithFormat(FormatTree, p, f)
    \/ \E p \in FormatPaths : LoadTree(p)

NextPersist ==
    \/ \E t \in TreeChoices, p \in Paths : SaveTree(t, p)
    \/ \E p \in Paths : LoadTree(p)

(***************************************************************************)
(* Text as the collaborator sends it and as search.rs and indexer.rs cut   *)
(* it: characters, their UTF-8 lengths, white space, lines.                *)
(***************************************************************************)
\* the grave accent of a code fence, written by its code point
GraveAccent == "U+0060"
\* characters that take two bytes in UTF-8: U+00E9, U+0130 and U+0307
EAcute == "U+00E9"
CapitalDottedI == "U+0130"
CombiningDot == "U+0307"

Min(a, b) == IF a <= b THEN a ELSE b

Utf8Len(c) == IF c \in {EAcute, CapitalDottedI, CombiningDot} THEN 2 ELSE 1

\* the length in bytes of the first k characters
BytesOf(s, k) == k + Cardinality({ i \in 1..k : Utf8Len(s[i]) = 2 })

\* str::len: the length in bytes
ByteLen(s) == BytesOf(s, Len(s))

\* &s[..n] for n <= s.len(): the characters that end at byte n; a cut
\* inside a character panics
SliceTo(s, n) ==
    LET ends == { k \in 0..Min(n, Len(s)) : BytesOf(s, k) = n } IN
    IF ends = {} THEN [panicked |-> TRUE, val |-> <<>>]
    ELSE [panicked |-> FALSE, val |-> SubSeq(s, 1, CHOOSE k \in ends : TRUE)]

WhiteSpace == {" ", "\n", "\t", "\r"}

RECURSIVE SkipWs(_, _)
SkipWs(txt, p) ==
    IF p <= Len(txt) /\ txt[p] \in WhiteSpace THEN SkipWs(txt, p + 1) ELSE p

RECURSIVE SkipWsBack(_, _)
SkipWsBack(txt, p) ==
    IF p >= 1 /\ txt[p] \in WhiteSpace THEN SkipWsBack(txt, p - 1) ELSE p

\* str::trim
Trim(s) == SubSeq(s, SkipWs(s, 1), SkipWsBack(s, Len(s)))

\* str::find(char): the first position of the character, or 0
Find(s, c) ==
    LET at == { i \in 1..Len(s) : s[i] = c } IN
    IF at = {} THEN 0 ELSE CHOOSE i \in at : \A j \in at : i <= j

\* str::rfind(pattern): the last position the pattern starts at, or 0
RFind(s, pat) ==
    LET at == { i \in 1..(Len(s) - Len(pat) + 1) :
                  s[i] = pat[1] /\ SubSeq(s, i, i + Len(pat) - 1) = pat }
    IN  IF at = {} THEN 0 ELSE CHOOSE i \in at : \A j \in at : j <= i

\* str::lines: the pieces between line feeds, without a last empty piece
\* (the texts of the model contain no carriage return)
Lines(s) ==
    LET feeds == { i \in 1..Len(s) : s[i] = "\n" }
        n == Cardinality(feeds)
        Feed(k) == IF k = 0 THEN 0
                   ELSE IF k = n + 1 THEN Len(s) + 1
                   ELSE CHOOSE p \in feeds :
                            Cardinality({ q \in feeds : q < p }) = k - 1
        pieces == [k \in 1..(n + 1) |-> SubSeq(s, Feed(k - 1) + 1, Feed(k) - 1)]
    IN  IF pieces[n + 1] = <<>> THEN SubSeq(pieces, 1, n) ELSE pieces

\* [String]::join(sep)
RECURSIVE Join(_, _)
Join(pieces, sep) ==
    IF pieces = <<>> THEN <<>>
    ELSE IF Len(pieces) = 1 THEN pieces[1]
    ELSE pieces[1] \o sep \o Join(Tail(pieces), sep)

UpperChars ==
    <<"A", "B", "C", "D", "E", "F", "G", "H", "I", "J", "K", "L", "M",
      "N", "O", "P", "Q", "R", "S", "T", "U", "V", "W", "X", "Y", "Z">>
LowerChars ==
    <<"a", "b", "c", "d", "e", "f", "g", "h", "i", "j", "k", "l", "m",
      "n", "o", "p", "q", "r", "s", "t", "u", "v", "w", "x", "y", "z">>

\* char::to_lowercase: an ASCII capital becomes its small letter, U+0130
\* becomes "i" followed by U+0307, the other characters of the model stay
ToLowerChar(c) ==
    IF \E i \in 1..26 : UpperChars[i] = c
    THEN <<LowerChars[CHOOSE i \in 1..26 : UpperChars[i] = c]>>
    ELSE IF c = CapitalDottedI THEN <<"i", CombiningDot>>
    ELSE <<c>>

\* str::to_lowercase
to_lowercase(s) == Flatten([i \in 1..Len(s) |-> ToLowerChar(s[i])])

(***************************************************************************)
(* serde_json::from_str on the collaborator's text: JSON values, then the  *)
(* derived Deserialize of the structs they are read into.  The texts of    *)
(* the model contain no escape sequence, fraction or exponent; the one     *)
(* float is the one that the integer literal -0 is read as.                *)
(***************************************************************************)
Value_Null == [t |-> "null", s |-> <<>>, n |-> 0, items |-> <<>>]
Value_Bool(b) == [t |-> "bool", s |-> <<>>, n |-> IF b THEN 1 ELSE 0, items |-> <<>>]
Value_Number(n) == [t |-> "number", s |-> <<>>, n |-> n, items |-> <<>>]
\* a number that is no integer, by its text
Value_Float(s) == [t |-> "float", s |-> s, n |-> 0, items |-> <<>>]
Value_String(s) == [t |-> "string", s |-> s, n |-> 0, items |-> <<>>]
Value_Array(elements) == [t |-> "array", s |-> <<>>, n |-> 0, items |-> elements]
\* members are [k, v] pairs in the order of the text
Value_Object(members) == [t |-> "object", s |-> <<>>, n |-> 0, items |-> members]

CharAt(txt, p) == IF p >= 1 /\ p <= Len(txt) THEN txt[p] ELSE "EOF"

\* the closing quote of the string that starts before position p, or 0;
\* a control character inside a string is an error
RECURSIVE StringEnd(_, _)
StringEnd(txt, p) ==
    IF p > Len(txt) THEN 0
    ELSE IF txt[p] = "\"" THEN p
    ELSE IF txt[p] \in {"\n", "\t", "\r"} THEN 0
    ELSE StringEnd(txt, p + 1)

\* a string literal whose opening quote is at position p
ParseString(txt, p) ==
    LET e == StringEnd(txt, p + 1) IN
    IF e = 0 THEN ParseFail ELSE Parsed(SubSeq(txt, p + 1, e - 1), e + 1)

RECURSIVE DigitsEnd(_, _)
DigitsEnd(txt, p) ==
    IF p <= Len(txt) /\ IsDigit(txt[p]) THEN DigitsEnd(txt, p + 1) ELSE p

\* an integer literal: an optional '-', then digits without a leading
\* zero; -0 is read as the float -0.0
ParseNumber(txt, p) ==
    LET neg == CharAt(txt, p) = "-"
        b == IF neg THEN p + 1 ELSE p
        e == DigitsEnd(txt, b)
    IN  IF e = b THEN ParseFail
        ELSE IF e - b > 1 /\ txt[b] = "0" THEN ParseFail
        ELSE LET v == DigitsValue(SubSeq(txt, b, e - 1), 0)
             IN  IF neg /\ v = 0 THEN Parsed(Value_Float(<<"-", "0", ".", "0">>), e)
                 ELSE Parsed(Value_Number(IF neg THEN 0 - v ELSE v), e)

\* null, true or false at position p; a text that ends inside the word is
\* an error
ParseLiteral(txt, p, word, v) ==
    IF p + Len(word) - 1 <= Len(txt) /\ SubSeq(txt, p, p + Len(word) - 1) = word
    THEN Parsed(v, p + Len(word)) ELSE ParseFail

RECURSIVE ParseValue(_, _)
RECURSIVE ParseElements(_, _, _)
RECURSIVE ParseMembers(_, _, _)

\* one JSON value starting at or after position p0
ParseValue(txt, p0) ==
    LET p == SkipWs(txt, p0)
        c == CharAt(txt, p)
    IN  IF c = "{" THEN
            LET q == SkipWs(txt, p + 1) IN
            IF CharAt(txt, q) = "}" THEN Parsed(Value_Object(<<>>), q + 1)
            ELSE ParseMembers(txt, q, <<>>)
        ELSE IF c = "[" THEN
            LET q == SkipWs(txt, p + 1) IN
            IF CharAt(txt, q) = "]" THEN Parsed(Value_Array(<<>>), q + 1)
            ELSE ParseElements(txt, q, <<>>)
        ELSE IF c = "\"" THEN
            LET str == ParseString(txt, p) IN
            IF str.ok THEN Parsed(Value_String(str.val), str.pos) ELSE ParseFail
        ELSE IF c = "-" \/ IsDigit(c) THEN ParseNumber(txt, p)
        ELSE IF c = "n" THEN ParseLiteral(txt, p, <<"n", "u", "l", "l">>, Value_Null)
        ELSE IF c = "t" THEN ParseLiteral(txt, p, <<"t", "r", "u", "e">>, Value_Bool(TRUE))
        ELSE IF c = "f" THEN ParseLiteral(txt, p, <<"f", "a", "l", "s", "e">>, Value_Bool(FALSE))
        ELSE ParseFail

\* the elements of an array from position p on, acc holding those before
ParseElements(txt, p, acc) ==
    LET v == ParseValue(txt, p) IN
    IF ~v.ok THEN ParseFail ELSE
    LET q == SkipWs(txt, v.pos)
        c == CharAt(txt, q)
    IN  IF c = "," THEN ParseElements(txt, q + 1, Append(acc, v.val))
        ELSE IF c = "]" THEN Parsed(Value_Array(Append(acc, v.val)), q + 1)
        ELSE ParseFail

\* the members of an object from position p on, acc holding those before
ParseMembers(txt, p, acc) ==
    LET q0 == SkipWs(txt, p) IN
    IF CharAt(txt, q0) # "\"" THEN ParseFail ELSE
    LET key == ParseString(txt, q0) IN
    IF ~key.ok THEN ParseFail ELSE
    LET q1 == SkipWs(txt, key.pos) IN
    IF CharAt(txt, q1) # ":" THEN ParseFail ELSE
    LET v == ParseValue(txt, q1 + 1) IN
    IF ~v.ok THEN ParseFail ELSE
    LET q2 == SkipWs(txt, v.pos)
        c == CharAt(txt, q2)
        member == [k |-> key.val, v |-> v.val]
    IN  IF c = "," THEN ParseMembers(txt, q2 + 1, Append(acc, member))
        ELSE IF c = "}" THEN Parsed(Value_Object(Append(acc, member)), q2 + 1)
        ELSE ParseFail

\* serde_json::from_str: one value and nothing but white space after it
ParseJson(txt) ==
    LET v == ParseValue(txt, 1) IN
    IF v.ok /\ SkipWs(txt, v.pos) = Len(txt) + 1 THEN v ELSE ParseFail

\* a derived struct is read from an object, or from an array that has one
\* element per field, in the order of the declaration
AsStruct(v, names) ==
    IF v.t = "object" THEN Parsed(v, 0)
    ELSE IF v.t = "array" /\ Len(v.items) = Len(names)
    THEN Parsed(Value_Object([i \in 1..Len(names) |->
                                 [k |-> names[i], v |-> v.items[i]]]), 0)
    ELSE ParseFail

\* the members of an object that carry one of the given keys
FieldMembers(obj, keys) ==
    { i \in 1..Len(obj.items) : obj.items[i].k \in keys }

\* a field without a default: exactly one member
RequiredField(obj, keys) ==
    LET ms == FieldMembers(obj, keys) IN
    IF Cardinality(ms) = 1
    THEN Parsed(obj.items[CHOOSE i \in ms : TRUE].v, 0) ELSE ParseFail

\* an Option field: at most one member, null when there is none
OptionalField(obj, keys) ==
    LET ms == FieldMembers(obj, keys) IN
    IF ms = {} THEN Parsed(Value_Null, 0)
    ELSE IF Cardinality(ms) = 1
    THEN Parsed(obj.items[CHOOSE i \in ms : TRUE].v, 0) ELSE ParseFail

\* every element of a sequence of parse results is a success
AllOk(rs) == \A i \in 1..Len(rs) : rs[i].ok
Vals(rs) == [i \in 1..Len(rs) |-> rs[i].val]

(***************************************************************************)
(* Results of the calls that go through the collaborator.                  *)
(***************************************************************************)
\* Ok(v)
OkOf(v) == [ok |-> TRUE, val |-> v, err |-> "", msg |-> <<>>, panicked |-> FALSE]
\* PageIndexError::Http, PageIndexError::LlmApi
Http == [ok |-> FALSE, val |-> <<>>, err |-> "Http", msg |-> <<>>, panicked |-> FALSE]
LlmApi == [ok |-> FALSE, val |-> <<>>, err |-> "LlmApi", msg |-> <<>>, panicked |-> FALSE]
\* PageIndexError::LlmParse; msg is the part of the raw response it carries
LlmParse(msg) ==
    [ok |-> FALSE, val |-> <<>>, err |-> "LlmParse", msg |-> msg, panicked |-> FALSE]
\* the call did not return: it panicked
Panicked == [ok |-> FALSE, val |-> <<>>, err |-> "", msg |-> <<>>, panicked |-> TRUE]

(***************************************************************************)
(* The collaborator (llm/client.rs).  A reply is what one request comes    *)
(* back with: no connection or no body, a non-success status, a body that  *)
(* is not a chat completion, a completion without choices, or a message    *)
(* content.                                                                *)
(***************************************************************************)
\* LlmClient::chat: [res, sent], sent counting the requests it sends
chat(reply) ==
    [res |-> IF reply.kind = "transport" THEN Http
             ELSE IF reply.kind = "status" THEN LlmApi
             ELSE IF reply.kind = "badbody" THEN LlmParse(<<>>)
             ELSE IF reply.kind = "nochoices" THEN LlmApi
             ELSE OkOf(reply.content),
     sent |-> 1]

\* LlmClient::complete
complete(reply) == chat(reply)

(***************************************************************************)
(* Relevance and the search options (search.rs).                           *)
(***************************************************************************)
\* Relevance::from_str without the lower-casing (mutant)
Relevance_from_str_exact(s) ==
    IF s = <<"h", "i", "g", "h">> THEN "High"
    ELSE IF s = <<"m", "e", "d", "i", "u", "m">> THEN "Medium"
    ELSE "Low"

\* Relevance::from_str
Relevance_from_str(s) ==
    LET lower == to_lowercase(s) IN
    IF lower = <<"h", "i", "g", "h">> THEN "High"
    ELSE IF lower = <<"m", "e", "d", "i", "u", "m">> THEN "Medium"
    ELSE "Low"

\* Relevance::score
score(relevance) ==
    IF relevance = "High" THEN 3 ELSE IF relevance = "Medium" THEN 2 ELSE 1

\* SearchOptions::default().top_k
DefaultTopK == 10

SearchOptions(top_k, min_relevance, include_content) ==
    [top_k |-> top_k, min_relevance |-> min_relevance,
     include_content |-> include_content]

\* SearchOptions::default
SearchOptions_default == SearchOptions(DefaultTopK, "Low", FALSE)

SearchResult(title, start_index, end_index, relevance, reason, content) ==
    [title |-> title, start_index |-> start_index, end_index |-> end_index,
     relevance |-> relevance, reason |-> reason, content |-> content]

(***************************************************************************)
(* TreeSearcher::parse_search_response.                                    *)
(***************************************************************************)
Fence == <<"U+0060", "U+0060", "U+0060">>
FenceJson == <<"U+0060", "U+0060", "U+0060", "j", "s", "o", "n">>

\* TreeSearcher::extract_json (positions count from 1)
TreeSearcher_extract_json(raw) ==
    LET response == Trim(raw)
        end == RFind(response, Fence)
        nl == Find(response, "\n")
        start == IF nl # 0 THEN nl + 1 ELSE 4
        open == Find(response, "{")
        close == RFind(response, <<"}">>)
    IN  IF StartsWith(response, FenceJson) /\ end > Len(FenceJson) + 1
        THEN Trim(SubSeq(response, Len(FenceJson) + 1, end - 1))
        ELSE IF StartsWith(response, Fence) /\ end > start
        THEN Trim(SubSeq(response, start, end - 1))
        ELSE IF open # 0 /\ close # 0 /\ close > open
        THEN SubSeq(response, open, close)
        ELSE response

DeString(v) == IF v.t = "string" THEN Parsed(v.s, 0) ELSE ParseFail
\* usize: a non-negative integer
DeUsize(v) == IF v.t = "number" /\ v.n >= 0 THEN Parsed(v.n, 0) ELSE ParseFail
DeOptionString(v) ==
    IF v.t = "null" THEN Parsed(NoneStr, 0)
    ELSE IF v.t = "string" THEN Parsed(Some(v.s), 0)
    ELSE ParseFail

DeField(field, De(_)) == IF field.ok THEN De(field.val) ELSE ParseFail

\* RawSearchResult #[derive(Deserialize)]
DeRawSearchResult(v) ==
    LET st == AsStruct(v, <<<<"t", "i", "t", "l", "e">>, <<"s", "t", "a", "r", "t", "_", "i", "n", "d", "e", "x">>, <<"e", "n", "d", "_", "i", "n", "d", "e", "x">>,
                            <<"r", "e", "l", "e", "v", "a", "n", "c", "e">>, <<"r", "e", "a", "s", "o", "n">>>>)
    IN  IF ~st.ok THEN ParseFail ELSE
    LET title == DeField(RequiredField(st.val, {<<"t", "i", "t", "l", "e">>}), DeString)
        start_index == DeField(RequiredField(st.val, {<<"s", "t", "a", "r", "t", "_", "i", "n", "d", "e", "x">>}), DeUsize)
        end_index == DeField(RequiredField(st.val, {<<"e", "n", "d", "_", "i", "n", "d", "e", "x">>}), DeUsize)
        relevance == DeField(RequiredField(st.val, {<<"r", "e", "l", "e", "v", "a", "n", "c", "e">>}), DeString)
        reason == DeField(RequiredField(st.val, {<<"r", "e", "a", "s", "o", "n">>}), DeString)
    IN  IF title.ok /\ start_index.ok /\ end_index.ok /\ relevance.ok /\ reason.ok
        THEN Parsed([title |-> title.val, start_index |-> start_index.val,
                     end_index |-> end_index.val, relevance |-> relevance.val,
                     reason |-> reason.val], 0)
        ELSE ParseFail

\* SearchResponse #[derive(Deserialize)]: the raw relevant_sections
DeSearchResponse(v) ==
    LET st == AsStruct(v, <<<<"t", "h", "i", "n", "k", "i", "n", "g">>, <<"r", "e", "l", "e", "v", "a", "n", "t", "_", "s", "e", "c", "t", "i", "o", "n", "s">>>>)
    IN  IF ~st.ok THEN ParseFail ELSE
    LET thinking == DeField(OptionalField(st.val, {<<"t", "h", "i", "n", "k", "i", "n", "g">>}), DeOptionString)
        sections == RequiredField(st.val, {<<"r", "e", "l", "e", "v", "a", "n", "t", "_", "s", "e", "c", "t", "i", "o", "n", "s">>})
    IN  IF ~thinking.ok \/ ~sections.ok THEN ParseFail
        ELSE IF sections.val.t # "array" THEN ParseFail
        ELSE LET rs == [i \in 1..Len(sections.val.items) |->
                           DeRawSearchResult(sections.val.items[i])]
             IN  IF AllOk(rs) THEN Parsed(Vals(rs), 0) ELSE ParseFail

\* the longest excerpt of the raw response an error message carries, in bytes
ExcerptLimit == 200

\* &response[..response.len().min(200)]: [panicked, val]
Excerpt(response) == SliceTo(response, Min(ByteLen(response), ExcerptLimit))

\* TreeSearcher::parse_search_response
parse_search_response(response) ==
    LET Convert(r) ==
            SearchResult(r.title, r.start_index, r.end_index,
                         Relevance_from_str(r.relevance), r.reason, NoneStr)
        Failure(excerpt) ==
            IF excerpt.panicked THEN Panicked ELSE LlmParse(excerpt.val)
        Outcome(parsed) ==
            IF ~parsed.ok THEN Failure(Excerpt(response))
            ELSE OkOf([i \in 1..Len(parsed.val) |-> Convert(parsed.val[i])])
        Deserialize(v) == IF v.ok THEN DeSearchResponse(v.val) ELSE ParseFail
    IN  Outcome(Deserialize(ParseJson(TreeSearcher_extract_json(response))))

(***************************************************************************)
(* TreeSearcher::search and TreeSearcher::search_with_content.             *)
(***************************************************************************)
\* a filter that also drops the results at the minimum (mutant)
retain_strict(results, min_relevance) ==
    SelectSeq(results, LAMBDA r : score(r.relevance) > score(min_relevance))

\* results.retain(|r| r.relevance.score() >= min_relevance.score())
retain(results, min_relevance) ==
    SelectSeq(results, LAMBDA r : score(r.relevance) >= score(min_relevance))

\* an insertion in front of the entries of equal score
InsertBeforeEqual(sorted, r) ==
    LET k == Cardinality({ i \in 1..Len(sorted) :
                             score(sorted[i].relevance) > score(r.relevance) })
    IN  SubSeq(sorted, 1, k) \o <<r>> \o SubSeq(sorted, k + 1, Len(sorted))

\* a sort by descending score that reverses entries of equal score (mutant)
RECURSIVE sort_by_unstable(_)
sort_by_unstable(results) ==
    IF results = <<>> THEN <<>>
    ELSE InsertBeforeEqual(sort_by_unstable(SubSeq(results, 1, Len(results) - 1)),
                           results[Len(results)])

\* an insertion behind the entries of equal or higher score
InsertAfterEqual(sorted, r) ==
    LET k == Cardinality({ i \in 1..Len(sorted) :
                             score(sorted[i].relevance) >= score(r.relevance) })
    IN  SubSeq(sorted, 1, k) \o <<r>> \o SubSeq(sorted, k + 1, Len(sorted))

\* results.sort_by(|a, b| b.relevance.score().cmp(&a.relevance.score())):
\* a stable sort by descending score
RECURSIVE sort_by(_)
sort_by(results) ==
    IF results = <<>> THEN <<>>
    ELSE InsertAfterEqual(sort_by(SubSeq(results, 1, Len(results) - 1)),
                          results[Len(results)])

\* results.truncate(top_k)
truncate(results, top_k) == SubSeq(results, 1, Min(top_k, Len(results)))

\* a search that cuts the list before it filters and sorts it (mutant)
search_truncate_first(options, reply) ==
    LET Rank(results) ==
            sort_by(retain(truncate(results, options.top_k), options.min_relevance))
        Finish(parsed, sent) ==
            [res |-> IF parsed.ok THEN OkOf(Rank(parsed.val)) ELSE parsed,
             sent |-> sent]
        Parse(c) ==
            IF ~c.res.ok THEN c
            ELSE Finish(parse_search_response(c.res.val), c.sent)
    IN  Parse(complete(reply))

\* TreeSearcher::search: [res, sent]
search(options, reply) ==
    LET Rank(results) ==
            truncate(sort_by(retain(results, options.min_relevance)), options.top_k)
        Finish(parsed, sent) ==
            [res |-> IF parsed.ok THEN OkOf(Rank(parsed.val)) ELSE parsed,
             sent |-> sent]
        Parse(c) ==
            IF ~c.res.ok THEN c
            ELSE Finish(parse_search_response(c.res.val), c.sent)
    IN  Parse(complete(reply))
(***************************************************************************)
(* Documents (document.rs) and TreeSearcher::search_with_content.          *)
(***************************************************************************)
\* Page::new (the token count plays no part in any call of the model)
Page_new(number, content) == [number |-> number, content |-> content]

\* Document::new
Document_new(name, pages) == [name |-> name, pages |-> pages]

\* Document::page_count
page_count(document) == Len(document.pages)

\* Page::with_index_tags
with_index_tags(page) ==
    Marker(page.number) \o <<"\n">> \o page.content \o <<"\n">>
        \o Marker(page.number) \o <<"\n", "\n">>

\* Document::content_range
content_range(document, start, end) ==
    LET pages == SelectSeq(document.pages,
                           LAMBDA p : p.number >= start /\ p.number <= end)
    IN  Flatten([i \in 1..Len(pages) |-> with_index_tags(pages[i])])

\* the clean_content of search_with_content: the lines that do not start
\* with "<physical_index_", joined and trimmed
clean_content(content) ==
    Trim(Join(SelectSeq(Lines(content),
                        LAMBDA line : ~StartsWith(line, PhysicalIndexPrefix)),
              <<"\n">>))

\* TreeSearcher::search_with_content: [res, sent]
search_with_content(options, document, reply) ==
    LET Fill(result) ==
            [result EXCEPT !.content =
                Some(clean_content(content_range(document, result.start_index,
                                                 result.end_index)))]
        FillAll(s) ==
            IF ~s.res.ok THEN s
            ELSE [res |-> OkOf([i \in 1..Len(s.res.val) |-> Fill(s.res.val[i])]),
                  sent |-> s.sent]
    IN  FillAll(search(options, reply))

(***************************************************************************)
(* TreeIndexer::index (indexer.rs).                                        *)
(***************************************************************************)
\* TreeIndexer::extract_json (positions count from 1)
TreeIndexer_extract_json(raw) ==
    LET response == Trim(raw)
        end == RFind(response, Fence)
        nl == Find(response, "\n")
        start == IF nl # 0 THEN nl + 1 ELSE 4
        openArr == Find(response, "[")
        closeArr == RFind(response, <<"]">>)
        open == Find(response, "{")
        close == RFind(response, <<"}">>)
    IN  IF StartsWith(response, FenceJson) /\ end > Len(FenceJson) + 1
        THEN Trim(SubSeq(response, Len(FenceJson) + 1, end - 1))
        ELSE IF StartsWith(response, Fence) /\ end > start
        THEN Trim(SubSeq(response, start, end - 1))
        ELSE IF openArr # 0 /\ closeArr # 0 /\ closeArr > openArr
        THEN SubSeq(response, openArr, closeArr)
        ELSE IF open # 0 /\ close # 0 /\ close > open
        THEN SubSeq(response, open, close)
        ELSE response

\* Option<serde_json::Value> as get_page_number tells the variants apart:
\* null, an integer, a string, and the values it has no page for (a float,
\* a bool, an array, an object)
DeOptionValue(v) ==
    IF v.t = "null" THEN Parsed(NoneValue, 0)
    ELSE IF v.t = "number" THEN Parsed(Some(JNumber(v.n)), 0)
    ELSE IF v.t = "string" THEN Parsed(Some(JString(v.s)), 0)
    ELSE Parsed(Some(JBool), 0)

\* RawTocItem #[derive(Deserialize)], physical_index with its alias "page"
DeRawTocItem(v) ==
    LET st == AsStruct(v, <<<<"s", "t", "r", "u", "c", "t", "u", "r", "e">>, <<"t", "i", "t", "l", "e">>, <<"p", "h", "y", "s", "i", "c", "a", "l", "_", "i", "n", "d", "e", "x">>>>)
    IN  IF ~st.ok THEN ParseFail ELSE
    LET structure == DeField(OptionalField(st.val, {<<"s", "t", "r", "u", "c", "t", "u", "r", "e">>}), DeOptionString)
        title == DeField(RequiredField(st.val, {<<"t", "i", "t", "l", "e">>}), DeString)
        physical_index ==
            DeField(OptionalField(st.val, {<<"p", "h", "y", "s", "i", "c", "a", "l", "_", "i", "n", "d", "e", "x">>, <<"p", "a", "g", "e">>}),
                    DeOptionValue)
    IN  IF structure.ok /\ title.ok /\ physical_index.ok
        THEN Parsed(RawTocItem(structure.val, title.val, physical_index.val), 0)
        ELSE ParseFail

\* Vec<RawTocItem>
DeTocItems(v) ==
    IF v.t # "array" THEN ParseFail
    ELSE LET rs == [i \in 1..Len(v.items) |-> DeRawTocItem(v.items[i])]
         IN  IF AllOk(rs) THEN Parsed(Vals(rs), 0) ELSE ParseFail

\* TocWrapper #[derive(Deserialize)]
DeTocWrapper(v) ==
    LET st == AsStruct(v, <<<<"t", "a", "b", "l", "e", "_", "o", "f", "_", "c", "o", "n", "t", "e", "n", "t", "s">>>>)
    IN  IF ~st.ok THEN ParseFail
        ELSE DeField(RequiredField(st.val, {<<"t", "a", "b", "l", "e", "_", "o", "f", "_", "c", "o", "n", "t", "e", "n", "t", "s">>}), DeTocItems)

\* TreeIndexer::parse_toc_response: Vec<RawTocItem> first, TocWrapper second
parse_toc_response(response) ==
    LET Failure(excerpt) ==
            IF excerpt.panicked THEN Panicked ELSE LlmParse(excerpt.val)
        Pick(direct, wrapper) ==
            IF direct.ok THEN OkOf(direct.val)
            ELSE IF wrapper.ok THEN OkOf(wrapper.val)
            ELSE Failure(Excerpt(response))
        Deserialize(v) ==
            Pick(IF v.ok THEN DeTocItems(v.val) ELSE ParseFail,
                 IF v.ok THEN DeTocWrapper(v.val) ELSE ParseFail)
    IN  Deserialize(ParseJson(TreeIndexer_extract_json(response)))

\* TreeIndexer::generate_toc_init: [res, sent]
generate_toc_init(reply) ==
    LET Parse(c) ==
            IF ~c.res.ok THEN c
            ELSE [res |-> parse_toc_response(c.res.val), sent |-> c.sent]
    IN  Parse(complete(reply))

\* TreeIndexer::index: [res, sent]
index(document, reply) ==
    LET Finish(built) ==
            IF built.panicked THEN Panicked
            ELSE OkOf(DocumentTree_new(document.name, built.nodes,
                                       page_count(document)))
        Assemble(toc_items) ==
            IF ~toc_items.res.ok THEN toc_items
            ELSE [res |-> Finish(build_tree_from_toc(toc_items.res.val,
                                                     page_count(document))),
                  sent |-> toc_items.sent]
    IN  Assemble(generate_toc_init(reply))


\* IndexerOptions and IndexerOptions::default(): the options a TreeIndexer
\* is made with; index reads none of them
IndexerOptions(max_tokens_per_chunk, verify_indices, max_fix_attempts) ==
    [max_tokens_per_chunk |-> max_tokens_per_chunk,
     verify_indices |-> verify_indices, max_fix_attempts |-> max_fix_attempts]

IndexerOptions_default == IndexerOptions(20000, TRUE, 3)
(***************************************************************************)
(* What the collaborator may reply.  A reply carries, next to its kind and *)
(* its text, what the text was written from: shape "sections" with the     *)
(* list of sections, shape "toc", or shape "garbage" for a text that is    *)
(* not of the expected form.                                               *)
(***************************************************************************)
Reply(kind, content, shape, sections) ==
    [kind |-> kind, content |-> content, shape |-> shape, sections |-> sections]

NoReply == Reply("none", <<>>, "none", <<>>)

Ranks == {"High", "Medium", "Low"}

\* a section as the collaborator means it; rank is the relevance it intends
Section(pos, relevance, rank, start_index, end_index) ==
    [title |-> ToDigits(pos), start_index |-> start_index,
     end_index |-> end_index, relevance |-> relevance, reason |-> <<"r">>,
     rank |-> rank]

Quote(s) == <<"\"">> \o s \o <<"\"">>

RenderSection(sec) ==
    <<"{", "\"", "t", "i", "t", "l", "e", "\"", ":">> \o Quote(sec.title)
        \o <<",", "\"", "s", "t", "a", "r", "t", "_", "i", "n", "d", "e", "x", "\"", ":">> \o ToDigits(sec.start_index)
        \o <<",", "\"", "e", "n", "d", "_", "i", "n", "d", "e", "x", "\"", ":">> \o ToDigits(sec.end_index)
        \o <<",", "\"", "r", "e", "l", "e", "v", "a", "n", "c", "e", "\"", ":">> \o Quote(sec.relevance)
        \o <<",", "\"", "r", "e", "a", "s", "o", "n", "\"", ":">> \o Quote(sec.reason) \o <<"}">>

RenderSections(sections) ==
    <<"[">> \o Join([i \in 1..Len(sections) |-> RenderSection(sections[i])], <<",">>)
        \o <<"]">>

\* the forms the tree_search prompt is answered in
RenderSearch(sections, style) ==
    LET plain == <<"{", "\"", "r", "e", "l", "e", "v", "a", "n", "t", "_", "s", "e", "c", "t", "i", "o", "n", "s", "\"", ":">> \o RenderSections(sections) \o <<"}">>
    IN  IF style = "plain" THEN plain
        ELSE IF style = "thinking"
        THEN <<"{", "\n", " ", " ", "\"", "t", "h", "i", "n", "k", "i", "n", "g", "\"", ":", " ", "\"", "s", "e", "c", "t", "i", "o", "n", "s", " ", "1", " ", "a", "n", "d", " ", "2", "\"", ",", "\n", " ", " ", "\"", "r", "e", "l", "e", "v", "a", "n", "t", "_", "s", "e", "c", "t", "i", "o", "n", "s", "\"", ":", " ">>
                 \o RenderSections(sections) \o <<"\n", "}", "\n">>
        ELSE IF style = "null_thinking"
        THEN <<"{", "\"", "t", "h", "i", "n", "k", "i", "n", "g", "\"", ":", "n", "u", "l", "l", ",", "\"", "c", "o", "n", "f", "i", "d", "e", "n", "c", "e", "\"", ":", "[", "1", ",", "{", "\"", "a", "\"", ":", "t", "r", "u", "e", "}", "]", ",", "\"", "r", "e", "l", "e", "v", "a", "n", "t", "_", "s", "e", "c", "t", "i", "o", "n", "s", "\"", ":">>
                 \o RenderSections(sections) \o <<"}">>
        ELSE IF style = "fence_json" THEN <<"U+0060", "U+0060", "U+0060", "j", "s", "o", "n", "\n">> \o plain \o <<"\n", "U+0060", "U+0060", "U+0060">>
        ELSE IF style = "fence" THEN <<"U+0060", "U+0060", "U+0060", "\n">> \o plain \o <<"\n", "U+0060", "U+0060", "U+0060", "\n">>
        ELSE <<"H", "e", "r", "e", " ", "a", "r", "e", " ", "t", "h", "e", " ", "s", "e", "c", "t", "i", "o", "n", "s", ":", " ">> \o plain \o <<" ", "D", "o", "n", "e", ".">>

Styles == {"plain", "thinking", "null_thinking", "fence_json", "fence", "prose"}

SectionsReply(sections, style) ==
    Reply("content", RenderSearch(sections, style), "sections", sections)

\* the text a rank is written in, varying with the position
RankText(rank, pos) ==
    IF rank = "High" THEN (IF pos % 2 = 1 THEN <<"h", "i", "g", "h">> ELSE <<"H", "I", "G", "H">>)
    ELSE IF rank = "Medium" THEN (IF pos % 2 = 1 THEN <<"m", "e", "d", "i", "u", "m">> ELSE <<"M", "e", "d", "i", "u", "m">>)
    ELSE (IF pos % 2 = 1 THEN <<"l", "o", "w">> ELSE <<"u", "n", "s", "u", "r", "e">>)

\* one section per rank of the list, titled by its position
SectionsOf(ranks) ==
    [i \in 1..Len(ranks) |-> Section(i, RankText(ranks[i], i), ranks[i], i, i)]

\* a list longer than the default top_k
LongRanks ==
    [i \in 1..(DefaultTopK + 2) |->
        IF i % 3 = 1 THEN "Low" ELSE IF i % 3 = 2 THEN "High" ELSE "Medium"]

\* every list of at most MaxResults ranks, the list [Low, High, Medium,
\* High] in every style, and the long list
RankReplies ==
    { SectionsReply(SectionsOf(l), "plain") :
        l \in UNION { [1..n -> Ranks] : n \in 0..MaxResults } }
    \cup { SectionsReply(SectionsOf(<<"Low", "High", "Medium", "High">>), st) :
             st \in Styles }
    \cup { SectionsReply(SectionsOf(LongRanks), "plain") }

ToUpperChar(c) ==
    IF \E i \in 1..26 : LowerChars[i] = c
    THEN UpperChars[CHOOSE i \in 1..26 : LowerChars[i] = c]
    ELSE c

\* every way to write a word in capital and small letters
RECURSIVE Casings(_)
Casings(word) ==
    IF word = <<>> THEN {<<>>}
    ELSE { <<c>> \o rest : c \in {word[1], ToUpperChar(word[1])},
                           rest \in Casings(Tail(word)) }

\* relevance texts that are no casing of "high" or "medium"
OtherTexts ==
    { <<>>, <<"u", "n", "k", "n", "o", "w", "n">>, <<"h", "i", "g", "h", "e", "s", "t">>, <<"h", "i", "g">>, <<" ", "h", "i", "g", "h">>, <<"v", "e", "r", "y", " ", "h", "i", "g", "h">>,
      <<"H", "U+0130", "G", "H">>, <<"m", "U+00E9", "d", "i", "u", "m">> }

\* one section whose relevance is written in each of these texts
CasingReplies ==
    { SectionsReply(<<Section(1, s, "High", 1, 1)>>, "plain") : s \in Casings(<<"h", "i", "g", "h">>) }
    \cup { SectionsReply(<<Section(1, s, "Medium", 1, 1)>>, "plain") :
             s \in Casings(<<"m", "e", "d", "i", "u", "m">>) }
    \cup { SectionsReply(<<Section(1, s, "Low", 1, 1)>>, "plain") :
             s \in Casings(<<"l", "o", "w">>) \cup OtherTexts }

\* n letters
Pad(n) == [i \in 1..n |-> "x"]

\* texts of no expected form that are longer than the excerpt, with a
\* two-byte character before, across and after the 200th byte
LongGarbage ==
    { Pad(ExcerptLimit), Pad(ExcerptLimit + 50),
      Pad(ExcerptLimit - 2) \o <<EAcute>> \o Pad(5),
      Pad(ExcerptLimit - 1) \o <<EAcute>> \o Pad(5),
      Pad(ExcerptLimit - 1) \o <<EAcute>>,
      Pad(ExcerptLimit) \o <<EAcute>> }

\* texts that are neither a search response nor a table of contents
CommonGarbage ==
    { <<>>, <<"N", "o", " ", "r", "e", "l", "e", "v", "a", "n", "t", " ", "s", "e", "c", "t", "i", "o", "n", "s", ".">>, <<"{", "}">>, <<"{", "\"", "r", "e", "l", "e", "v", "a", "n", "t", "_", "s", "e", "c", "t", "i", "o", "n", "s", "\"", ":", " ", "5", "}">>,
      <<"{", "\"", "r", "e", "l", "e", "v", "a", "n", "t", "_", "s", "e", "c", "t", "i", "o", "n", "s", "\"", ":", " ", "[", "{", "\"", "t", "i", "t", "l", "e", "\"", ":", " ", "\"", "1", "\"">>,
      <<"U+0060", "U+0060", "U+0060", "j", "s", "o", "n", "\n", "n", "o", "t", " ", "j", "s", "o", "n", "\n", "U+0060", "U+0060", "U+0060">>, <<"n", "u", "l">> } \cup LongGarbage

\* texts that are close to a search response
SearchGarbage ==
    { <<"{", "\"", "r", "e", "l", "e", "v", "a", "n", "t", "_", "s", "e", "c", "t", "i", "o", "n", "s", "\"", ":", "[", "{", "\"", "t", "i", "t", "l", "e", "\"", ":", "\"", "1", "\"", ",", "\"", "s", "t", "a", "r", "t", "_", "i", "n", "d", "e", "x", "\"", ":", "1", ",", "\"", "e", "n", "d", "_", "i", "n", "d", "e", "x", "\"", ":", "1", ",", "\"", "r", "e", "l", "e", "v", "a", "n", "c", "e", "\"", ":", "\"", "h", "i", "g", "h", "\"", "}", "]", "}">>,
      <<"{", "\"", "r", "e", "l", "e", "v", "a", "n", "t", "_", "s", "e", "c", "t", "i", "o", "n", "s", "\"", ":", "[", "{", "\"", "t", "i", "t", "l", "e", "\"", ":", "\"", "1", "\"", ",", "\"", "s", "t", "a", "r", "t", "_", "i", "n", "d", "e", "x", "\"", ":", "\"", "1", "\"", ",", "\"", "e", "n", "d", "_", "i", "n", "d", "e", "x", "\"", ":", "1", ",", "\"", "r", "e", "l", "e", "v", "a", "n", "c", "e", "\"", ":", "\"", "h", "i", "g", "h", "\"", ",", "\"", "r", "e", "a", "s", "o", "n", "\"", ":", "\"", "r", "\"", "}", "]", "}">>,
      <<"{", "\"", "r", "e", "l", "e", "v", "a", "n", "t", "_", "s", "e", "c", "t", "i", "o", "n", "s", "\"", ":", "[", "{", "\"", "t", "i", "t", "l", "e", "\"", ":", "\"", "1", "\"", ",", "\"", "s", "t", "a", "r", "t", "_", "i", "n", "d", "e", "x", "\"", ":", "-", "1", ",", "\"", "e", "n", "d", "_", "i", "n", "d", "e", "x", "\"", ":", "1", ",", "\"", "r", "e", "l", "e", "v", "a", "n", "c", "e", "\"", ":", "\"", "h", "i", "g", "h", "\"", ",", "\"", "r", "e", "a", "s", "o", "n", "\"", ":", "\"", "r", "\"", "}", "]", "}">>,
      <<"{", "\"", "r", "e", "l", "e", "v", "a", "n", "t", "_", "s", "e", "c", "t", "i", "o", "n", "s", "\"", ":", "[", "{", "\"", "t", "i", "t", "l", "e", "\"", ":", "\"", "1", "\"", ",", "\"", "s", "t", "a", "r", "t", "_", "i", "n", "d", "e", "x", "\"", ":", "-", "0", ",", "\"", "e", "n", "d", "_", "i", "n", "d", "e", "x", "\"", ":", "1", ",", "\"", "r", "e", "l", "e", "v", "a", "n", "c", "e", "\"", ":", "\"", "h", "i", "g", "h", "\"", ",", "\"", "r", "e", "a", "s", "o", "n", "\"", ":", "\"", "r", "\"", "}", "]", "}">>,
      <<"{", "\"", "r", "e", "l", "e", "v", "a", "n", "t", "_", "s", "e", "c", "t", "i", "o", "n", "s", "\"", ":", "[", "]", ",", "\"", "r", "e", "l", "e", "v", "a", "n", "t", "_", "s", "e", "c", "t", "i", "o", "n", "s", "\"", ":", "[", "]", "}">>,
      <<"{", "\"", "t", "h", "i", "n", "k", "i", "n", "g", "\"", ":", "5", ",", "\"", "r", "e", "l", "e", "v", "a", "n", "t", "_", "s", "e", "c", "t", "i", "o", "n", "s", "\"", ":", "[", "]", "}">>,
      <<"{", "\"", "r", "e", "l", "e", "v", "a", "n", "t", "_", "s", "e", "c", "t", "i", "o", "n", "s", "\"", ":", "[", "]", "}", " ", "}">>,
      <<"{", "\"", "r", "e", "l", "e", "v", "a", "n", "t", "_", "s", "e", "c", "t", "i", "o", "n", "s", "\"", ":", "[", "]", ",", "}">> }

\* texts that are close to a table of contents
TocGarbage ==
    { <<"[", "{", "\"", "s", "t", "r", "u", "c", "t", "u", "r", "e", "\"", ":", "\"", "1", "\"", "}", "]">>,
      <<"[", "{", "\"", "t", "i", "t", "l", "e", "\"", ":", "\"", "a", "\"", ",", "\"", "p", "h", "y", "s", "i", "c", "a", "l", "_", "i", "n", "d", "e", "x", "\"", ":", "1", ",", "\"", "p", "a", "g", "e", "\"", ":", "2", "}", "]">>,
      <<"[", "{", "\"", "t", "i", "t", "l", "e", "\"", ":", "\"", "a", "\"", "}", ",", "]">>,
      <<"{", "\"", "t", "a", "b", "l", "e", "_", "o", "f", "_", "c", "o", "n", "t", "e", "n", "t", "s", "\"", ":", "{", "\"", "t", "i", "t", "l", "e", "\"", ":", "\"", "a", "\"", "}", "}">> }

GarbageReply(text) == Reply("content", text, "garbage", <<>>)

\* requests that fail before a message content is there
FailureReplies ==
    { Reply(k, <<>>, "none", <<>>) :
        k \in {"transport", "status", "badbody", "nochoices"} }

\* tables of contents in the forms the generate_toc_init prompt is answered in
TocText ==
    <<"[", "{", "\"", "s", "t", "r", "u", "c", "t", "u", "r", "e", "\"", ":", "\"", "1", "\"", ",", "\"", "t", "i", "t", "l", "e", "\"", ":", "\"", "I", "n", "t", "r", "o", "\"", ",", "\"", "p", "h", "y", "s", "i", "c", "a", "l", "_", "i", "n", "d", "e", "x", "\"", ":", "1", "}", ",", "{", "\"", "s", "t", "r", "u", "c", "t", "u", "r", "e", "\"", ":", "\"", "1", ".", "1", "\"", ",", "\"", "t", "i", "t", "l", "e", "\"", ":", "\"", "S", "u", "b", "\"", ",", "\"", "p", "h", "y", "s", "i", "c", "a", "l", "_", "i", "n", "d", "e", "x", "\"", ":", "\"", "<", "p", "h", "y", "s", "i", "c", "a", "l", "_", "i", "n", "d", "e", "x", "_", "2", ">", "\"", "}", ",", "{", "\"", "s", "t", "r", "u", "c", "t", "u", "r", "e", "\"", ":", "\"", "2", "\"", ",", "\"", "t", "i", "t", "l", "e", "\"", ":", "\"", "E", "n", "d", "\"", ",", "\"", "p", "a", "g", "e", "\"", ":", "3", "}", "]">>

TocReplies ==
    { Reply("content", t, "toc", <<>>) :
        t \in { TocText, <<"[", "]">>,
                <<"H", "e", "r", "e", " ", "i", "s", " ", "t", "h", "e", " ", "s", "t", "r", "u", "c", "t", "u", "r", "e", ":", "\n">> \o TocText,
                <<"U+0060", "U+0060", "U+0060", "j", "s", "o", "n", "\n", "{", "\"", "t", "a", "b", "l", "e", "_", "o", "f", "_", "c", "o", "n", "t", "e", "n", "t", "s", "\"", ":", " ">> \o TocText \o <<"}", "\n", "U+0060", "U+0060", "U+0060">>,
                <<"U+0060", "U+0060", "U+0060", "\n">> \o TocText \o <<"\n", "U+0060", "U+0060", "U+0060">>,
                <<"[", "{", "\"", "t", "i", "t", "l", "e", "\"", ":", "\"", "O", "n", "l", "y", "\"", "}", "]">>,
                <<"[", "{", "\"", "s", "t", "r", "u", "c", "t", "u", "r", "e", "\"", ":", "n", "u", "l", "l", ",", "\"", "t", "i", "t", "l", "e", "\"", ":", "\"", "N", "\"", ",", "\"", "p", "h", "y", "s", "i", "c", "a", "l", "_", "i", "n", "d", "e", "x", "\"", ":", "n", "u", "l", "l", "}", "]">>,
                <<"[", "{", "\"", "t", "i", "t", "l", "e", "\"", ":", "\"", "B", "\"", ",", "\"", "p", "h", "y", "s", "i", "c", "a", "l", "_", "i", "n", "d", "e", "x", "\"", ":", "t", "r", "u", "e", "}", "]">>,
                <<"[", "{", "\"", "t", "i", "t", "l", "e", "\"", ":", "\"", "Z", "\"", ",", "\"", "p", "h", "y", "s", "i", "c", "a", "l", "_", "i", "n", "d", "e", "x", "\"", ":", "-", "0", "}", "]">>,
                <<"[", "[", "\"", "1", "\"", ",", "\"", "A", "\"", ",", "1", "]", "]">> } }

(***************************************************************************)
(* The documents, the options and the calls.                               *)
(***************************************************************************)
\* the text of page i: one line; two lines with blanks around them; a line
\* that starts like a page marker, then a line and a line feed
PageText(i) ==
    IF i = 1 THEN <<"o", "n", "e">>
    ELSE IF i = 2 THEN <<" ", "t", "w", "o", "\n", "l", "i", "n", "e", "s", " ">>
    ELSE IF i = 3 THEN <<"<", "p", "h", "y", "s", "i", "c", "a", "l", "_", "i", "n", "d", "e", "x", "_", "7", ">", "\n", "t", "h", "r", "e", "e", "\n">>
    ELSE <<"p">> \o ToDigits(i)

NoDocument == Document_new(<<>>, <<>>)

\* a document of MaxPage pages, one whose page 2 was blank and dropped
\* (Document::from_text_file_with_delimiter), and Document::from_text("")
DocumentChoices ==
    { Document_new(<<"d", "o", "c">>, [i \in 1..MaxPage |-> Page_new(i, PageText(i))]),
      Document_new(<<"g", "a", "p">>, <<Page_new(1, <<"f", "i", "r", "s", "t">>), Page_new(3, <<"t", "h", "i", "r", "d">>)>>),
      Document_new(<<"e", "m", "p", "t", "y">>, <<Page_new(1, <<>>)>>) }

\* page ranges inside the document, outside it on either side, across its
\* end, with the start behind the end, and the one page behind a dropped one
RangeChoices ==
    { <<2, 3>>, <<1, 1>>, <<0, 0>>, <<MaxPage + 1, MaxPage + 2>>, <<3, 2>>,
      <<1, MaxPage + 2>>, <<0, 1>>, <<3, 3>> }

\* two sections with each pair of ranges
RangeReplies ==
    { SectionsReply(<<Section(1, <<"h", "i", "g", "h">>, "High", a[1], a[2]),
                      Section(2, <<"m", "e", "d", "i", "u", "m">>, "Medium", b[1], b[2])>>, "plain") :
        a \in RangeChoices, b \in RangeChoices }

OptionChoices ==
    { SearchOptions(k, m, FALSE) : k \in (0..MaxTopK) \cup {DefaultTopK}, m \in Ranks }

SearchReplies ==
    RankReplies \cup CasingReplies \cup FailureReplies
        \cup { GarbageReply(t) : t \in CommonGarbage \cup SearchGarbage }

ContentReplies ==
    RangeReplies \cup FailureReplies \cup { GarbageReply(t) : t \in LongGarbage }

IndexReplies ==
    TocReplies \cup FailureReplies
        \cup { GarbageReply(t) : t \in CommonGarbage \cup TocGarbage }

\* str::contains(pattern)
Contains(s, pat) == RFind(s, pat) # 0

\* LlmClient::test_connection: one chat request, Ok when the lower-cased
\* content contains "hello"
test_connection(reply) ==
    LET Check(c) ==
            IF ~c.res.ok THEN c
            ELSE [res |-> IF Contains(to_lowercase(c.res.val), <<"h", "e", "l", "l", "o">>)
                          THEN OkOf(<<>>) ELSE LlmApi,
                  sent |-> c.sent]
    IN  Check(chat(reply))

\* what the collaborator may answer "Say 'hello' in one word."
TestReplies ==
    { Reply("content", t, "text", <<>>) :
        t \in { <<"H", "e", "l", "l", "o", "!">>, <<"H", "E", "L", "L", "O">>, <<"H", "i", " ", "t", "h", "e", "r", "e">>, <<>> } }
        \cup FailureReplies

\* what the collaborator may answer a bare chat or complete call
TextReplies ==
    TestReplies \cup { Reply("content", <<"x">>, "text", <<>>) }

\* no call has returned yet
Idle ==
    [op |-> "none", options |-> SearchOptions_default, document |-> NoDocument,
     reply |-> NoReply, res |-> OkOf(<<>>), done |-> FALSE]

SearchInit ==
    /\ calls = 0
    /\ requests = 0
    /\ in_flight = {}
    /\ outcome = Idle

\* the first poll of a call: search, search_with_content, index,
\* test_connection, complete or chat itself build their messages and run LlmClient::chat up to
\* send().await, so the request is with the transport when the call first
\* waits; the searcher and the indexer are borrowed shared (&self), so
\* other calls may be in flight
StartCall(op, options, document) ==
    /\ calls < MaxCalls
    /\ calls' = calls + 1
    /\ requests' = requests + 1
    /\ in_flight' = in_flight \cup
            { [id |-> calls + 1, op |-> op, options |-> options,
               document |-> document, stage |-> "sent"] }
    /\ outcome' = Idle

Call(op, options, document) ==
    /\ StartCall(op, options, document)
    /\ UNCHANGED nonSearchVars

\* send().await resolves with a response: its status line and headers
\* are there (head "status" for a non-success status, "success"
\* otherwise) and the call waits at response.text().await
Respond(c, head) ==
    /\ c \in in_flight
    /\ c.stage = "sent"
    /\ in_flight' = (in_flight \ {c}) \cup {[c EXCEPT !.stage = head]}
    /\ UNCHANGED <<calls, requests, outcome>>
    /\ UNCHANGED nonSearchVars

\* what a call at this stage can get next: send().await fails while the
\* request is out; once the response is there, response.text().await
\* fails, or the body arrives and is looked at under the status the
\* response came with
Arrives(stage, reply) ==
    \/ reply.kind = "transport"
    \/ stage = "status" /\ reply.kind = "status"
    \/ stage = "success" /\ reply.kind \in {"badbody", "nochoices", "content"}

\* the call gets the rest of the collaborator's reply and returns r.res,
\* having sent r.sent requests, the first of them when it started
ReturnCall(c, reply, r) ==
    /\ c \in in_flight
    /\ Arrives(c.stage, reply)
    /\ in_flight' = in_flight \ {c}
    /\ requests' = requests + (r.sent - 1)
    /\ outcome' = [op |-> c.op, options |-> c.options, document |-> c.document,
                   reply |-> reply, res |-> r.res, done |-> TRUE]
    /\ UNCHANGED calls

Return(c, reply, r) ==
    /\ ReturnCall(c, reply, r)
    /\ UNCHANGED nonSearchVars

\* TreeSearcher::search
Search(c, reply) ==
    /\ c.op = "search"
    /\ Arrives(c.stage, reply)
    /\ Return(c, reply, search(c.options, reply))

\* TreeSearcher::search_with_content
SearchWithContent(c, reply) ==
    /\ c.op = "search_with_content"
    /\ Arrives(c.stage, reply)
    /\ Return(c, reply, search_with_content(c.options, c.document, reply))

\* TreeIndexer::index
Index(c, reply) ==
    /\ c.op = "index"
    /\ Arrives(c.stage, reply)
    /\ Return(c, reply, index(c.document, reply))

\* LlmClient::test_connection
TestConnection(c, reply) ==
    /\ c.op = "test_connection"
    /\ Arrives(c.stage, reply)
    /\ Return(c, reply, test_connection(reply))

\* LlmClient::complete, called bare (eval/benchmark.rs, eval/judge.rs)
Complete(c, reply) ==
    /\ c.op = "complete"
    /\ Arrives(c.stage, reply)
    /\ Return(c, reply, complete(reply))

\* LlmClient::chat, called bare
Chat(c, reply) ==
    /\ c.op = "chat"
    /\ Arrives(c.stage, reply)
    /\ Return(c, reply, chat(reply))

\* the calls a second caller starts while another call is in flight
OverlapChoices ==
    { [op |-> "search", options |-> SearchOptions_default, document |-> NoDocument],
      [op |-> "test_connection", options |-> SearchOptions_default,
       document |-> NoDocument],
      [op |-> "complete", options |-> SearchOptions_default,
       document |-> NoDocument] }

Overlapping ==
    /\ in_flight # {}
    /\ \A c \in in_flight :
          [op |-> c.op, options |-> c.options, document |-> c.document]
              \in OverlapChoices

NextSearch ==
    \/ \E o \in OptionChoices : in_flight = {} /\ Call("search", o, NoDocument)
    \/ \E d \in DocumentChoices :
          in_flight = {} /\ Call("search_with_content", SearchOptions_default, d)
    \/ \E d \in DocumentChoices :
          in_flight = {} /\ Call("index", SearchOptions_default, d)
    \/ in_flight = {} /\ Call("test_connection", SearchOptions_default, NoDocument)
    \/ in_flight = {} /\ Call("complete", SearchOptions_default, NoDocument)
    \/ in_flight = {} /\ Call("chat", SearchOptions_default, NoDocument)
    \/ \E o \in OverlapChoices :
          Overlapping /\ Call(o.op, o.options, o.document)
    \/ \E c \in in_flight, head \in {"status", "success"} : Respond(c, head)
    \/ \E c \in in_flight, r \in SearchReplies : Search(c, r)
    \/ \E c \in in_flight, r \in ContentReplies : SearchWithContent(c, r)
    \/ \E c \in in_flight, r \in IndexReplies : Index(c, r)
    \/ \E c \in in_flight, r \in TestReplies : TestConnection(c, r)
    \/ \E c \in in_flight, r \in TextReplies : Complete(c, r)
    \/ \E c \in in_flight, r \in TextReplies : Chat(c, r)

(***************************************************************************)
(* The Document constructors (document.rs).                                *)
(***************************************************************************)
\* Path::file_stem: the file name without its extension
file_stem(file_name) ==
    IF Extension(file_name).some
    THEN SubSeq(file_name, 1, Len(file_name) - Len(Extension(file_name).val) - 1)
    ELSE file_name

DocOk(document) == [ok |-> TRUE, val |-> document, err |-> ""]
DocErr(kind) == [ok |-> FALSE, val |-> Document_new(<<>>, <<>>), err |-> kind]

\* Document::from_text: one page, numbered 1, with the whole text
from_text(name, content) == Document_new(name, <<Page_new(1, content)>>)

\* Document::from_text_file; file is what read_to_string finds at the path
from_text_file(file_name, file) ==
    IF ~file.some THEN DocErr("Io")
    ELSE DocOk(Document_new(file_stem(file_name), <<Page_new(1, file.val)>>))

\* Document::from_text_file_with_delimiter: the parts are numbered by
\* enumerate() before filter() drops the blank ones
from_text_file_with_delimiter(file_name, file, delimiter) ==
    LET Pages(parts) ==
            SelectSeq([i \in 1..Len(parts) |-> Page_new(i, parts[i])],
                      LAMBDA page : Trim(page.content) # <<>>)
        Made(pages) ==
            IF pages = <<>> THEN DocErr("DocumentNotFound")
            ELSE DocOk(Document_new(file_stem(file_name), pages))
    IN  IF ~file.some THEN DocErr("Io")
        ELSE Made(Pages(Split(file.val, delimiter)))

\* the characters of the texts: a letter, white space and the delimiter
TextChars == {"a", " ", "\n", "|"}
Delimiter == "|"

\* every text of up to MaxText characters
Texts == UNION { [1..n -> TextChars] : n \in 0..MaxText }

DocFileName == <<"d", "o", "c", ".", "t", "x", "t">>

DocumentInit ==
    constructed = [op |-> "none", text |-> NoneStr, res |-> DocErr("")]

FromText(content) ==
    /\ constructed' = [op |-> "from_text", text |-> Some(content),
                res |-> DocOk(from_text(<<"d", "o", "c">>, content))]
    /\ UNCHANGED nonDocumentVars

FromTextFile(file) ==
    /\ constructed' = [op |-> "from_text_file", text |-> file,
                res |-> from_text_file(DocFileName, file)]
    /\ UNCHANGED nonDocumentVars

FromTextFileWithDelimiter(file) ==
    /\ constructed' = [op |-> "from_text_file_with_delimiter", text |-> file,
                res |-> from_text_file_with_delimiter(DocFileName, file, Delimiter)]
    /\ UNCHANGED nonDocumentVars

\* a file that cannot be read, or one with any of the texts
NextDocument ==
    \/ \E t \in Texts : FromText(t)
    \/ \E f \in {NoneStr} \cup { Some(t) : t \in Texts } : FromTextFile(f)
    \/ \E f \in {NoneStr} \cup { Some(t) : t \in Texts } : FromTextFileWithDelimiter(f)
(***************************************************************************)
(* The search command of the command line (main.rs).                       *)
(***************************************************************************)
\* --top-k when the flag is not given
CliDefaultTopK == 5

CliErr(kind) ==
    [ok |-> FALSE, err |-> kind, panicked |-> FALSE, printed |-> <<>>, found |-> 0]

\* the command has not ended
CliRunning == CliErr("")

\* what the command prints of the results and the count in its last line
CliPrinted(results, top_k) ==
    [ok |-> TRUE, err |-> "", panicked |-> FALSE,
     printed |-> SubSeq(results, 1, Min(top_k, Len(results))),
     found |-> Len(results)]

\* tree_exists: the paths of the model name files, not directories
tree_exists(files, path) == PathExists(files, path)

\* cmd_search up to load_tree: the index file is looked for, --document is
\* asked for with --with-content, the configuration is loaded ("ok",
\* "unloadable" when Config::load fails, "invalid" when validate does);
\* the error the command ends with, or ""
CmdSearchChecks(index_exists, with_content, document_given, config) ==
    IF ~index_exists THEN "Index not found"
    ELSE IF with_content /\ ~document_given THEN "--document is required"
    ELSE IF config = "unloadable" THEN "Failed to load configuration"
    ELSE IF config = "invalid" THEN "Invalid configuration"
    ELSE ""

\* cmd_search from the searcher's return on: s is what search or
\* search_with_content returned
CmdSearchReport(s, top_k) ==
    IF s.res.panicked THEN [CliErr("") EXCEPT !.panicked = TRUE]
    ELSE IF ~s.res.ok THEN CliErr("Search failed")
    ELSE CliPrinted(s.res.val, top_k)

\* the values of --top-k: small ones, the flag's default, and the
\* searcher's own top_k with its neighbours
CliTopKs ==
    (0..MaxTopK) \cup {CliDefaultTopK}
        \cup {DefaultTopK - 1, DefaultTopK, DefaultTopK + 1, DefaultTopK + 2}

\* the --document file when it is read: unreadable, or one page
CliDocumentFiles == { NoneStr, Some(<<"o", "n", "e">>) }

CliConfigs == {"ok", "unloadable", "invalid"}

\* the --index path
CliIndexPath == Path(DirCwd, <<"a", ".", "j", "s", "o", "n">>)

CliReplies ==
    RankReplies \cup FailureReplies \cup { GarbageReply(<<"N", "o", " ", "r", "e", "l", "e", "v", "a", "n", "t", " ", "s", "e", "c", "t", "i", "o", "n", "s", ".">>) }

CliInit ==
    cli = [stage |-> "none", index_path |-> CliIndexPath, top_k |-> CliDefaultTopK,
           with_content |-> FALSE, document_given |-> FALSE,
           reply |-> NoReply, res |-> CliRunning]

\* what the command leaves alone while it talks to the collaborator
nonSearchCliVars == <<buildVars, persistVars, documentVars, cacheVars>>

CliEnd(kind) ==
    cli' = [cli EXCEPT !.stage = "done", !.res = CliErr(kind)]

\* pageindex search <query> [--index path] [--top-k N] [--with-content]
\* [--document path], the one command of a run of the program, up to the
\* configuration
CmdSearch(index_path, top_k, with_content, document_given, config) ==
    LET e == CmdSearchChecks(tree_exists(fs_files, index_path), with_content,
                             document_given, config)
    IN  /\ cli.stage = "none"
        /\ cli' = [stage |-> IF e = "" THEN "checked" ELSE "done",
                   index_path |-> index_path, top_k |-> top_k,
                   with_content |-> with_content,
                   document_given |-> document_given,
                   reply |-> NoReply,
                   res |-> IF e = "" THEN CliRunning ELSE CliErr(e)]
        /\ UNCHANGED nonCliVars

\* the command reads the index file as it is now; without --with-content
\* it goes on to the searcher, whose request is out when the command
\* first waits
CliLoadTree ==
    LET tree == load_tree(fs_files, cli.index_path) IN
    /\ cli.stage = "checked"
    /\ IF ~tree.ok
       THEN CliEnd("Failed to load tree index") /\ UNCHANGED nonCliVars
       ELSE IF cli.with_content
       THEN cli' = [cli EXCEPT !.stage = "loaded"] /\ UNCHANGED nonCliVars
       ELSE /\ StartCall("search", SearchOptions_default, NoDocument)
            /\ cli' = [cli EXCEPT !.stage = "sent"]
            /\ UNCHANGED nonSearchCliVars

\* with --with-content the command reads the document file as it is now
\* and goes on to the searcher
CliLoadDocument(file) ==
    LET document == from_text_file(DocFileName, file) IN
    /\ cli.stage = "loaded"
    /\ IF ~document.ok
       THEN CliEnd("Failed to load document") /\ UNCHANGED nonCliVars
       ELSE /\ StartCall("search_with_content", SearchOptions_default, document.val)
            /\ cli' = [cli EXCEPT !.stage = "sent"]
            /\ UNCHANGED nonSearchCliVars

\* the searcher returns and the command prints
CliReturn(c, reply) ==
    LET Ends(r) ==
            /\ ReturnCall(c, reply, r)
            /\ cli' = [cli EXCEPT !.stage = "done", !.reply = reply,
                                  !.res = CmdSearchReport(r, cli.top_k)]
    IN  /\ cli.stage = "sent"
        /\ Arrives(c.stage, reply)
        /\ IF c.op = "search" THEN Ends(search(c.options, reply))
           ELSE Ends(search_with_content(c.options, c.document, reply))
        /\ UNCHANGED nonSearchCliVars

\* the index file is written before the command has read it: by the index
\* command, or by a caller of save_tree_with_format in the other format
CliIndexWritable == cli.stage \in {"none", "checked"}

NextCli ==
    \/ \E k \in CliTopKs, w \in BOOLEAN, g \in BOOLEAN, cf \in CliConfigs :
          CmdSearch(CliIndexPath, k, w, g, cf)
    \/ CliLoadTree
    \/ \E f \in CliDocumentFiles : CliLoadDocument(f)
    \/ \E c \in in_flight, head \in {"status", "success"} : Respond(c, head)
    \/ \E c \in in_flight, r \in CliReplies : CliReturn(c, r)
    \/ CliIndexWritable /\ SaveTree(FormatTree, CliIndexPath)
    \/ CliIndexWritable /\ SaveTreeWithFormat(FormatTree, CliIndexPath, "Bincode")

(***************************************************************************)
(* The tree cache of the benchmark (eval/benchmark.rs).                    *)
(***************************************************************************)
\* BenchmarkConfig::default().top_k
BenchTopK == 3

\* document_hash: the fingerprint of a document's text.  The model keeps
\* it apart from the text and injective on the texts of the items.
document_hash(doc) == <<"#">> \o doc

\* CachedTree
CachedTree(tree, document) == [tree |-> tree, document |-> document]

\* the HashMap is the set of its entries [key, val], one per key
\* a map lookup that never finds an entry (mutant)
cache_get_miss(cache, doc_hash) ==
    [some |-> FALSE, val |-> CachedTree(NoTree, NoDocument)]

\* cache.get(&doc_hash).map(|c| (c.tree.clone(), c.document.clone()))
cache_get(cache, doc_hash) ==
    IF \E e \in cache : e.key = doc_hash
    THEN Some((CHOOSE e \in cache : e.key = doc_hash).val)
    ELSE [some |-> FALSE, val |-> CachedTree(NoTree, NoDocument)]

\* an insertion that keeps the entry that is there (mutant)
cache_insert_keep(cache, doc_hash, entry) ==
    IF \E e \in cache : e.key = doc_hash THEN cache
    ELSE cache \cup {[key |-> doc_hash, val |-> entry]}

\* cache.insert(doc_hash, CachedTree { .. }): HashMap::insert replaces the
\* entry of the key
cache_insert(cache, doc_hash, entry) ==
    { e \in cache : e.key # doc_hash } \cup {[key |-> doc_hash, val |-> entry]}

\* a read guard that is not dropped after the lookup (mutant)
drop_read_forgotten(guards, t) == guards

\* drop(cache) after the lookup
drop_read(guards, t) == guards \ {t}

\* format!("[Section: {}] (pages {}-{})\n{}", ..)
format_section(r) ==
    <<"[", "S", "e", "c", "t", "i", "o", "n", ":", " ">> \o r.title \o <<"]", " ", "(", "p", "a", "g", "e", "s", " ">> \o ToDigits(r.start_index)
        \o <<"-">> \o ToDigits(r.end_index) \o <<")", "\n">>
        \o (IF r.content.some THEN r.content.val ELSE <<"(", "n", "o", " ", "c", "o", "n", "t", "e", "n", "t", ")">>)

\* the content run_pageindex returns: the first top_k results of High or
\* Medium relevance, and the first top_k results when that text is empty
pageindex_content(search_results, top_k) ==
    LET Combine(results) ==
            Join([i \in 1..Min(top_k, Len(results)) |-> format_section(results[i])],
                 <<"\n", "\n", "-", "-", "-", "\n", "\n">>)
        Fallback(content) ==
            IF content = <<>> THEN Combine(search_results) ELSE content
    IN  Fallback(Combine(SelectSeq(search_results,
                                   LAMBDA r : r.relevance \in {"High", "Medium"})))

\* what a call holds after `indexer.index(&doc).await?` although the build
\* failed (mutant)
built_unchecked(indexed) == [go |-> TRUE, tree |-> indexed.val]

\* `indexer.index(&doc).await?`: the tree, or the return of the error
built(indexed) == [go |-> indexed.ok, tree |-> indexed.val]

\* the items of the dataset: two with the same document, one with another
BenchItems ==
    << [id |-> <<"q", "1">>, document |-> <<"o", "n", "e">>],
       [id |-> <<"q", "2">>, document |-> <<"o", "n", "e">>],
       [id |-> <<"q", "3">>, document |-> <<"o", "t", "h", "e", "r", " ", "t", "e", "x", "t">>] >>

Tasks == 1..MaxTasks

\* the replies to the indexer: two tables of contents, a failed request, a
\* text that is no table of contents, and a table with a code that has no
\* number in it behind a numbered one
CacheIndexReplies ==
    { Reply("content", TocText, "toc", <<>>),
      Reply("content", <<"[", "{", "\"", "t", "i", "t", "l", "e", "\"", ":", "\"", "O", "n", "l", "y", "\"", "}", "]">>, "toc", <<>>),
      Reply("transport", <<>>, "none", <<>>),
      GarbageReply(<<"n", "o", " ", "t", "a", "b", "l", "e">>),
      Reply("content",
            <<"[", "{", "\"", "s", "t", "r", "u", "c", "t", "u", "r", "e", "\"", ":", "\"", "1", "\"", ",", "\"", "t", "i", "t", "l", "e", "\"", ":", "\"", "A", "\"", "}", ",", "{", "\"", "s", "t", "r", "u", "c", "t", "u", "r", "e", "\"", ":", "\"", "x", "\"", ",", "\"", "t", "i", "t", "l", "e", "\"", ":", "\"", "B", "\"", "}", "]">>,
            "toc", <<>>) }

\* the replies to the searcher
CacheSearchReplies ==
    { SectionsReply(SectionsOf(<<"Low", "High">>), "plain"),
      Reply("status", <<>>, "none", <<>>) }

NoEntry == CachedTree(NoTree, NoDocument)

\* a caller that has not called yet
IdleTask ==
    [pc |-> "idle", item |-> 0, run |-> 0, before |-> {}, held |-> NoEntry,
     res |-> [ok |-> TRUE, err |-> "", content |-> <<>>]]

doc_hash_of(t) == document_hash(BenchItems[task[t].item].document)

CacheInit ==
    /\ tree_cache = {}
    /\ readers = {}
    /\ writer = 0
    /\ task = [t \in Tasks |-> IdleTask]
    /\ history = [runs |-> 0, log |-> <<>>]

\* the log with one more event of call t
Logged(kind, t, err) ==
    Append(history.log,
           [kind |-> kind, task |-> t, run |-> task[t].run,
            hash |-> doc_hash_of(t), err |-> err])

\* run_pageindex is called on item i
Begin(t, i) ==
    /\ history.runs < MaxRuns
    /\ task' = [task EXCEPT ![t] = [IdleTask EXCEPT !.pc = "read_wait", !.item = i,
                                                   !.run = history.runs + 1,
                                                   !.before = tree_cache]]
    /\ history' = [history EXCEPT !.runs = @ + 1]
    /\ UNCHANGED <<tree_cache, readers, writer>>
    /\ UNCHANGED nonCacheVars

\* a caller calls run_pageindex while other calls may be under way
Start(t, i) ==
    /\ task[t].pc = "idle"
    /\ Begin(t, i)

\* Benchmark::run: process_item calls run_pageindex on the next item when
\* the call before it has returned
StartNext(i) ==
    /\ \A t \in Tasks : task[t].pc \in {"idle", "done"}
    /\ Begin(1, i)

\* self.tree_cache.read().await
AcquireRead(t) ==
    /\ task[t].pc = "read_wait"
    /\ writer = 0
    /\ readers' = readers \cup {t}
    /\ task' = [task EXCEPT ![t].pc = "reading"]
    /\ UNCHANGED <<tree_cache, writer, history>>
    /\ UNCHANGED nonCacheVars

\* the lookup, and the drop of the read guard: on a hit the call goes on
\* with the cached tree and document, on a miss with Document::from_text
Lookup(t) ==
    /\ task[t].pc = "reading"
    /\ LET cached == cache_get(tree_cache, doc_hash_of(t))
           item == BenchItems[task[t].item]
       IN  task' = [task EXCEPT
                      ![t].pc = IF cached.some THEN "searching" ELSE "building",
                      ![t].held = IF cached.some THEN cached.val
                                  ELSE CachedTree(NoTree,
                                                  from_text(item.id, item.document))]
    /\ readers' = drop_read(readers, t)
    /\ UNCHANGED <<tree_cache, writer, history>>
    /\ UNCHANGED nonCacheVars

\* indexer.index(&doc).await? comes back
IndexReturns(t, reply) ==
    /\ task[t].pc = "building"
    /\ LET indexed == index(task[t].held.document, reply).res
           step == built(indexed)
       IN  /\ task' = [task EXCEPT
                         ![t].pc = IF indexed.panicked THEN "panicked"
                                   ELSE IF step.go THEN "write_wait" ELSE "done",
                         ![t].held = IF step.go /\ ~indexed.panicked
                                     THEN CachedTree(step.tree, @.document) ELSE @,
                         ![t].res = IF step.go \/ indexed.panicked THEN @
                                    ELSE [ok |-> FALSE, err |-> indexed.err,
                                          content |-> <<>>]]
           /\ history' = [history EXCEPT
                            !.log = Logged(IF indexed.panicked THEN "panicked"
                                           ELSE IF indexed.ok THEN "built"
                                           ELSE "failed", t, indexed.err)]
    /\ UNCHANGED <<tree_cache, readers, writer>>
    /\ UNCHANGED nonCacheVars

\* self.tree_cache.write().await
AcquireWrite(t) ==
    /\ task[t].pc = "write_wait"
    /\ writer = 0 /\ readers = {}
    /\ writer' = t
    /\ task' = [task EXCEPT ![t].pc = "writing"]
    /\ UNCHANGED <<tree_cache, readers, history>>
    /\ UNCHANGED nonCacheVars

\* cache.insert(..), and the end of the block that drops the write guard
Insert(t) ==
    /\ task[t].pc = "writing"
    /\ tree_cache' = cache_insert(tree_cache, doc_hash_of(t), task[t].held)
    /\ writer' = 0
    /\ task' = [task EXCEPT ![t].pc = "searching"]
    /\ history' = [history EXCEPT !.log = Logged("insert", t, "")]
    /\ UNCHANGED readers
    /\ UNCHANGED nonCacheVars

\* searcher.search_with_content(..).await? comes back, and the content
\* is put together
SearchReturns(t, reply) ==
    /\ task[t].pc = "searching"
    /\ LET found == search_with_content(SearchOptions_default,
                                        task[t].held.document, reply).res
       IN  task' = [task EXCEPT
                      ![t].pc = IF found.panicked THEN "panicked" ELSE "done",
                      ![t].res = IF found.panicked THEN @
                                 ELSE IF ~found.ok
                                 THEN [ok |-> FALSE, err |-> found.err,
                                       content |-> <<>>]
                                 ELSE [ok |-> TRUE, err |-> "",
                                       content |-> pageindex_content(found.val,
                                                                     BenchTopK)]]
    /\ UNCHANGED <<tree_cache, readers, writer, history>>
    /\ UNCHANGED nonCacheVars

\* the steps of a call after its start
CallStep ==
    \/ \E t \in Tasks : AcquireRead(t)
    \/ \E t \in Tasks : Lookup(t)
    \/ \E t \in Tasks, r \in CacheIndexReplies : IndexReturns(t, r)
    \/ \E t \in Tasks : AcquireWrite(t)
    \/ \E t \in Tasks : Insert(t)
    \/ \E t \in Tasks, r \in CacheSearchReplies : SearchReturns(t, r)

\* callers that overlap
NextCache ==
    \/ \E t \in Tasks, i \in 1..Len(BenchItems) : Start(t, i)
    \/ CallStep

\* Benchmark::run: one item after the other
NextRun ==
    \/ \E i \in 1..Len(BenchItems) : StartNext(i)
    \/ CallStep
Next ==
    \/ \E c \in ItemChoices : AddItem(c[1], c[2])
    \/ \E tp \in TotalPages : Build(tp)

Init ==
    BuildInit /\ PersistInit /\ SearchInit /\ DocumentInit /\ CliInit /\ CacheInit

Spec == Init /\ [][Next]_vars

SpecPersist == Init /\ [][NextPersist]_vars

SpecFormat == Init /\ [][NextFormat]_vars

SpecSearch == Init /\ [][NextSearch]_vars

SpecDocument == Init /\ [][NextDocument]_vars

SpecCli == Init /\ [][NextCli]_vars

\* run_pageindex calls that may overlap
SpecCache == Init /\ [][NextCache]_vars

\* Benchmark::run: one run_pageindex call after the other
SpecRun == Init /\ [][NextRun]_vars

(***************************************************************************)
(* Views of a forest used to state the properties.                         *)
(***************************************************************************)
\* every node of a forest with its depth (roots are at depth 1), the title
\* of its parent (0 for a root) and its position among its siblings
RECURSIVE Walk(_, _, _)
Walk(forest, depth, parent) ==
    UNION { {[node |-> forest[i], depth |-> depth, parent |-> parent, pos |-> i]}
            \cup Walk(forest[i].nodes, depth + 1, forest[i].title)
            : i \in 1..Len(forest) }

AllNodes(forest) == Walk(forest, 1, 0)

\* the same without the nodes' contents
Shape(forest) ==
    { [id |-> x.node.title, depth |-> x.depth, parent |-> x.parent, pos |-> x.pos]
      : x \in AllNodes(forest) }

Descendants(node) == Walk(node.nodes, 1, node.title)

\* the chain of last children that starts at the last root
RECURSIVE LastChain(_)
LastChain(forest) ==
    IF forest = <<>> THEN <<>>
    ELSE <<forest[Len(forest)]>> \o LastChain(forest[Len(forest)].nodes)

\* the resolved page of descriptor i (an unresolvable reference gives 1)
ResolvedPage(i) == UnwrapOr(get_page_number(items[i]), 1)

\* number of dot-separated components of a descriptor's code (1 without code)
CodeDepth(item) ==
    IF item.structure.some THEN Len(Split(item.structure.val, ".")) ELSE 1

\* the code, when present, is a dotted sequence of numerals
IsNumeralCode(item) ==
    item.structure.some =>
        \A c \in 1..Len(Split(item.structure.val, ".")) :
            ParseUsize(Split(item.structure.val, ".")[c]).some

AllNumeralCodes == \A i \in 1..Len(items) : IsNumeralCode(items[i])

DepthConsistent ==
    /\ items # <<>>
    /\ CodeDepth(items[1]) = 1
    /\ \A i \in 2..Len(items) : CodeDepth(items[i]) <= CodeDepth(items[i - 1]) + 1

PagesNonDecreasing ==
    \A i \in 2..Len(items) : ResolvedPage(i - 1) <= ResolvedPage(i)

Returned == pc = "done"

(***************************************************************************)
(* Claims about build_tree_from_toc.                                       *)
(***************************************************************************)
\* C1: for every non-empty descriptor list and every total_pages, every node
\* of the returned tree has start_index <= end_index.  The code violates it.
C1_StartLeEnd ==
    (Returned /\ items # <<>>) =>
        \A x \in AllNodes(nodes) : x.node.start_index <= x.node.end_index

\* C2: in every returned tree, every node with children has an end_index
\* greater than or equal to the end_index of each of its descendants.
C2_ParentSpansDescendants ==
    Returned =>
        \A x \in AllNodes(nodes) :
            \A y \in Descendants(x.node) : x.node.end_index >= y.node.end_index

\* a returned tree with a grandchild whose ancestors the fix-up widened
C2_Witness ==
    /\ Returned
    /\ nodes # placed
    /\ \E x \in AllNodes(nodes) : x.depth = 3
    /\ \E x \in AllNodes(nodes), y \in AllNodes(placed) :
          /\ x.depth = 1 /\ y.depth = 1 /\ x.node.title = y.node.title
          /\ x.node.end_index > y.node.end_index

\* C3 as stated: each child's page range lies inside its parent's range.
C3_Containment ==
    Returned =>
        \A x \in AllNodes(nodes) :
            \A i \in 1..Len(x.node.nodes) :
                /\ x.node.start_index <= x.node.nodes[i].start_index
                /\ x.node.nodes[i].end_index <= x.node.end_index

\* C3 amended: every child's end_index is at most its parent's end_index,
\* and the parent's start_index is at most the child's start_index whenever
\* the resolved pages are non-decreasing along the descriptor list.
C3_ContainmentAmended ==
    Returned =>
        \A x \in AllNodes(nodes) :
            \A i \in 1..Len(x.node.nodes) :
                /\ x.node.nodes[i].end_index <= x.node.end_index
                /\ PagesNonDecreasing =>
                       x.node.start_index <= x.node.nodes[i].start_index

\* a returned tree over non-decreasing pages with a parent that the fix-up
\* widened to its child's end
C3_Witness ==
    /\ Returned
    /\ PagesNonDecreasing
    /\ \E i, j \in 1..Len(items) : ResolvedPage(i) < ResolvedPage(j)
    /\ \E x \in AllNodes(nodes), y \in AllNodes(placed) :
          /\ x.node.title = y.node.title
          /\ x.node.nodes # <<>>
          /\ x.node.end_index > y.node.end_index

\* the range the claim C4 gives descriptor i
C4_ClaimedRange(i) ==
    IF i < Len(items)
    THEN <<ResolvedPage(i),
           IF ResolvedPage(i) >= ResolvedPage(i + 1) - 1
           THEN ResolvedPage(i) ELSE ResolvedPage(i + 1) - 1>>
    ELSE <<ResolvedPage(i), total_pages>>

\* C4: before the fix-up, a non-last descriptor i gets the range
\* [p(i), max(p(i), p(i+1) - 1)] and the last one [p(last), total_pages];
\* every leaf of the returned tree carries that range.  The code violates it.
C4_RangeFormula ==
    Returned =>
        /\ \A i \in 1..Len(processed) :
              <<processed[i].node.start_index, processed[i].node.end_index>>
                  = C4_ClaimedRange(i)
        /\ \A x \in AllNodes(nodes) :
              x.node.nodes = <<>> =>
                  <<x.node.start_index, x.node.end_index>>
                      = C4_ClaimedRange(x.node.title)

\* the forest of the second loop after k descriptors, and whether it panicked
ForestAfter(k) == PlaceFirst(processed, k).nodes
PanickedAfter(k) == PlaceFirst(processed, k).panicked

\* the most recently added node of depth d among the first k descriptors
LatestAtDepth(k, d) ==
    LET cands == { x \in Shape(ForestAfter(k)) : x.depth = d }
    IN  CHOOSE x \in cands : \A y \in cands : y.id <= x.id

NumChildren(forest, id) == Cardinality({ x \in Shape(forest) : x.parent = id })

\* descriptor k was appended as the last child of the node `parent` of depth
\* `pdepth` (as a new last root when parent = 0), and nothing else moved
AppendedUnder(k, parent, pdepth) ==
    /\ Shape(ForestAfter(k)) =
          Shape(ForestAfter(k - 1)) \cup
              {[id |-> k, depth |-> pdepth + 1, parent |-> parent,
                pos |-> NumChildren(ForestAfter(k - 1), parent) + 1]}
    /\ \E x \in AllNodes(ForestAfter(k)) : x.node = processed[k].node

\* C6: in a depth-consistent stream (the first descriptor has depth 1 and
\* every descriptor's depth is at most the previous one's + 1, depth being
\* the number of components of the code), a descriptor with a one-component
\* code or with no code is appended as a new last root, and a descriptor of
\* depth d >= 2 is appended as the last child of the most recently added
\* node of depth d-1.  The code violates it.
C6_PlacementRule ==
    (pc # "input" /\ DepthConsistent) =>
        /\ Returned
        /\ placed = ForestAfter(Len(items))
        /\ \A k \in 1..Len(items) :
              LET d == CodeDepth(items[k]) IN
              IF d = 1 THEN AppendedUnder(k, 0, 0)
              ELSE /\ \E x \in Shape(ForestAfter(k - 1)) : x.depth = d - 1
                   /\ AppendedUnder(k, LatestAtDepth(k - 1, d - 1).id, d - 1)

\* C7 as stated: every node that carries a structure code is at a depth equal
\* to the number of dot-separated components of that code.
C7_DepthEqualsComponents ==
    Returned =>
        \A x \in AllNodes(nodes) :
            x.node.structure.some =>
                x.depth = Len(Split(x.node.structure.val, "."))

\* C7 amended: the same, for a depth-consistent stream of numeral codes.
C7_DepthEqualsComponentsAmended ==
    (Returned /\ DepthConsistent /\ AllNumeralCodes) =>
        \A x \in AllNodes(nodes) :
            x.node.structure.some =>
                x.depth = Len(Split(x.node.structure.val, "."))

\* a depth-consistent stream produced a node with a three-component code
C7_Witness ==
    /\ Returned /\ DepthConsistent /\ AllNumeralCodes
    /\ \E x \in AllNodes(nodes) :
          x.node.structure = Some(Code111) /\ x.depth = 3

\* C8: at the root level and inside every children list, siblings appear in
\* the relative order of their descriptors in the input list (a node's title
\* is the position of its descriptor).
C8_NoReorder ==
    Returned =>
        \A x, y \in Shape(nodes) :
            (x.parent = y.parent /\ x.pos < y.pos) => x.id < y.id

\* a tree in which one parent received two children, one after the other
C8_Witness ==
    /\ Returned
    /\ \E x, y \in Shape(nodes) :
          x.parent # 0 /\ x.parent = y.parent /\ x.pos = 1 /\ y.pos = 2

\* C9: when a descriptor of depth d >= 2 arrives and the chain of last
\* children starting at the last root is shorter than d-1, the node becomes
\* the last child of the deepest node of that chain (a root when there is no
\* root yet), and the build does not fail.  The code violates it.
C9_DepthJump ==
    pc # "input" =>
        \A k \in 1..Len(items) :
            LET d == CodeDepth(items[k])
                chain == LastChain(ForestAfter(k - 1))
            IN  (/\ ~PanickedAfter(k - 1)
                 /\ d >= 2
                 /\ Len(chain) < d - 1) =>
                    /\ ~PanickedAfter(k)
                    /\ IF chain = <<>> THEN AppendedUnder(k, 0, 0)
                       ELSE AppendedUnder(k, chain[Len(chain)].title, Len(chain))

(***************************************************************************)
(* Page references: the builder run on descriptors whose physical_index    *)
(* takes every form the collaborator may send.                             *)
(***************************************************************************)
\* page references that are neither a non-negative integer nor a marker
OddRefs ==
    { NoneValue,
      Some(JBool),
      Some(JNumber(-1)),
      Some(JString(<<>>)),
      Some(JString(<<"a", "b", "c">>)),
      Some(JString(<<"7">>)),
      Some(JString(<<" ", "7">>)),
      Some(JString(PhysicalIndexPrefix \o <<">">>)),
      Some(JString(PhysicalIndexPrefix \o <<"7">>)),
      Some(JString(Marker(7) \o <<"x">>)),
      Some(JString(PhysicalIndexPrefix \o Marker(7) \o <<">">>)) }

RefChoices ==
    OddRefs \cup { Some(JNumber(n)) : n \in 0..MaxRefPage }
            \cup { Some(JString(Marker(n))) : n \in 0..MaxRefPage }

\* the collaborator's reply holds one more descriptor, with code "1"
AddRefItem(physical_index) ==
    /\ pc = "input"
    /\ Len(items) < 3
    /\ items' = Append(items, RawTocItem(Some(Code1), Len(items) + 1, physical_index))
    /\ UNCHANGED <<total_pages, processed, placed, nodes, pc>>
    /\ UNCHANGED nonBuildVars

NextPageRef ==
    \/ \E r \in RefChoices : AddRefItem(r)
    \/ \E tp \in TotalPages : Build(tp)

SpecPageRef == Init /\ [][NextPageRef]_vars

\* C5: for every non-negative integer n, the page references n and
\* "<physical_index_n>" both resolve to page n; a descriptor whose page
\* reference cannot be resolved gets start page 1, and the build returns a
\* node for every descriptor.
C5_PageRefNormalization ==
    pc # "input" =>
        /\ \A i \in 1..Len(items) : \A n \in 0..MaxRefPage :
              items[i].physical_index \in {Some(JNumber(n)), Some(JString(Marker(n)))}
                  => /\ get_page_number(items[i]) = Some(n)
                     /\ processed[i].node.start_index = n
        /\ \A i \in 1..Len(items) :
              items[i].physical_index \in
                  {NoneValue, Some(JBool), Some(JNumber(-1)), Some(JString(<<>>)),
                   Some(JString(<<"a", "b", "c">>)), Some(JString(<<" ", "7">>)),
                   Some(JString(Marker(7) \o <<"x">>))}
                  => /\ get_page_number(items[i]) = None
                     /\ processed[i].node.start_index = 1
        /\ Returned
        /\ Cardinality(AllNodes(nodes)) = Len(items)

\* a build over the integer 10, the marker of 10 and an unparsable string
C5_Witness ==
    /\ Returned
    /\ Len(items) = 3
    /\ items[1].physical_index = Some(JNumber(10))
    /\ items[2].physical_index = Some(JString(Marker(10)))
    /\ items[3].physical_index = Some(JString(<<"a", "b", "c">>))
    /\ nodes[1].start_index = 10 /\ nodes[2].start_index = 10
    /\ nodes[3].start_index = 1

(***************************************************************************)
(* Claims about the persistence layer.                                     *)
(***************************************************************************)
\* C10: in either format, load_tree(path) after a successful
\* save_tree(T, path) returns a tree equal to T in every field, whatever had
\* been saved at that path before.
C10_RoundTrip ==
    (last.op = "load" /\ saved[last.path].some) =>
        /\ last.res.ok
        /\ last.res.val = saved[last.path].val

\* the deepest tree was loaded back, in the binary and in the JSON format,
\* from paths that held another tree before
C10_Witness ==
    /\ last.op = "load"
    /\ last.res.ok
    /\ \E n \in Walk(last.res.val.nodes, 1, <<>>) :
          n.depth >= 5 /\ n.node.nodes = <<>>
    /\ last.res.val.description = Some(<<"d">>)
    /\ saved[last.path].overwrote
    /\ SaveFormat_from_path(last.path) = "Bincode"
    /\ \E p \in Paths :
          /\ SaveFormat_from_path(p) = "Json"
          /\ saved[p].some /\ saved[p].overwrote
          /\ load_tree(fs_files, p) = Ok(saved[p].val)
          /\ \E n \in Walk(saved[p].val.nodes, 1, <<>>) : n.node.nodes = <<>>

(***************************************************************************)
(* C11: the format is selected by the file-name suffix alone.              *)
(***************************************************************************)
\* the format the claim assigns to each file name of the model
C11_Expected(file_name) ==
    IF file_name \in { <<"t", ".", "b", "i", "n">>,
                       <<"t", ".", "b", "i", "n", "c", "o", "d", "e">>,
                       <<"t", ".", "j", "s", "o", "n", ".", "b", "i", "n">> }
    THEN "Bincode" ELSE "Json"

C11_Encoded(format, tree) ==
    IF format = "Json" THEN to_json(tree) ELSE encode_to_vec(tree)

\* C11: save_tree writes the form the suffix of the file name selects
\* ("json", any other or no suffix: JSON; "bin", "bincode": binary), whatever
\* the directory, and load_tree reads a file back exactly when it is in the
\* form the same suffix selects
C11_FormatSelection ==
    /\ (last.op = "save" /\ last.res.ok) =>
           fs_files[last.path].val =
               C11_Encoded(C11_Expected(last.path.file_name), last.tree)
    /\ (last.op = "load" /\ saved[last.path].some) =>
           ((last.res = Ok(saved[last.path].val)) <=>
            (fs_files[last.path].val =
               C11_Encoded(C11_Expected(last.path.file_name),
                           saved[last.path].val)))

\* a file written in the binary form under a name without a recognized
\* suffix is refused by load_tree, with a file of suffix "bincode" saved by
\* save_tree next to it
C11_Witness ==
    /\ last.op = "load" /\ last.path = Path(DirDotted, <<"t">>)
    /\ fs_files[last.path].val = encode_to_vec(FormatTree)
    /\ ~last.res.ok
    /\ fs_files[Path(DirCwd, <<"t", ".", "b", "i", "n", "c", "o", "d", "e">>)].val
         = encode_to_vec(FormatTree)

(***************************************************************************)
(* C12: loading a path at which there is no file.                          *)
(***************************************************************************)
\* C12: load_tree on a path without a file returns IndexNotFound carrying
\* that path
C12_LoadMissing ==
    (last.op = "load" /\ ~fs_files[last.path].some) =>
        last.res = Err("IndexNotFound", last.path)

\* a load of a missing file in a directory that exists, after another file
\* was saved
C12_Witness ==
    /\ last.op = "load" /\ last.path.dir = DirData
    /\ ~fs_files[last.path].some
    /\ \E p \in Paths : fs_files[p].some

(***************************************************************************)
(* C13: parent directories are created first; a failure writes nothing.    *)
(***************************************************************************)
\* C13: a save whose parent directory is missing and can be created creates
\* it and writes the file; a save whose parent directory cannot be created
\* returns an error and leaves every file as it was
C13_ParentsFirst ==
    [][ last'.op = "save" =>
          /\ (last'.path.dir \notin {DirCwd, DirBlocked}) =>
                 /\ last'.res.ok
                 /\ DirExists(fs_dirs', last'.path.dir)
                 /\ fs_files'[last'.path].some
          /\ (last'.path.dir = DirBlocked) =>
                 /\ ~last'.res.ok
                 /\ fs_files' = fs_files
                 /\ ~fs_files'[last'.path].some
                 /\ ~DirExists(fs_dirs', DirBlocked) ]_vars

\* a failed save under the directory that cannot be created, after a save
\* that created its missing parent directory
C13_Witness ==
    /\ last.op = "save" /\ last.path.dir = DirBlocked /\ ~last.res.ok
    /\ DirExists(fs_dirs, DirOut)
    /\ \E p \in Paths : p.dir = DirOut /\ fs_files[p].some

(***************************************************************************)
(* Views of the last call through the collaborator.                        *)
(***************************************************************************)
\* a search returned and the collaborator had replied a list of sections
SearchReturned ==
    /\ outcome.done
    /\ outcome.op \in {"search", "search_with_content"}
    /\ outcome.reply.shape = "sections"

Results == outcome.res.val

\* the place of a result in the collaborator's list: its title
PosOf(result) == DigitsValue(result.title, 0)

PositionsOf(results) == [i \in 1..Len(results) |-> PosOf(results[i])]

\* rank a is strictly above rank b
Above(a, b) ==
    <<a, b>> \in { <<"High", "Medium">>, <<"High", "Low">>, <<"Medium", "Low">> }

\* the ranks the collaborator's sections are meant to have
RanksReplied ==
    [p \in 1..Len(outcome.reply.sections) |-> outcome.reply.sections[p].rank]

(***************************************************************************)
(* C14: ordered by relevance, equal relevance in the collaborator's order. *)
(***************************************************************************)
\* C14: in the list search returns no result stands behind one of strictly
\* lower relevance, and two results of equal relevance stand in the order
\* the collaborator sent them; [Low, High, Medium, High] comes back as the
\* 2nd, 4th, 3rd and 1st section
C14_SortedStable ==
    SearchReturned =>
        /\ outcome.res.ok
        /\ \A i, j \in 1..Len(Results) : i < j =>
              /\ ~Above(Results[j].relevance, Results[i].relevance)
              /\ (Results[i].relevance = Results[j].relevance
                    => PosOf(Results[i]) < PosOf(Results[j]))
        /\ (/\ RanksReplied = <<"Low", "High", "Medium", "High">>
            /\ outcome.options.min_relevance = "Low"
            /\ outcome.options.top_k >= 4)
              => PositionsOf(Results) = <<2, 4, 3, 1>>

\* the list [Low, High, Medium, High] was searched with the default options
C14_Witness ==
    /\ SearchReturned /\ outcome.op = "search"
    /\ outcome.options = SearchOptions_default
    /\ RanksReplied = <<"Low", "High", "Medium", "High">>
    /\ PositionsOf(Results) = <<2, 4, 3, 1>>

(***************************************************************************)
(* C15: the minimum-relevance filter.                                      *)
(***************************************************************************)
\* the places of the sections that rank at or above the minimum
C15_Qualifying ==
    { p \in 1..Len(RanksReplied) :
        ~Above(outcome.options.min_relevance, RanksReplied[p]) }

\* C15: no returned result ranks below min_relevance; when top_k leaves
\* room for them, every section at or above min_relevance is returned; with
\* the default minimum Low the filter drops nothing; the minimum Medium on
\* [High, Low, Medium] gives the 1st and the 3rd section
C15_MinimumRelevance ==
    SearchReturned =>
        /\ outcome.res.ok
        /\ \A i \in 1..Len(Results) :
              ~Above(outcome.options.min_relevance, Results[i].relevance)
        /\ Cardinality(C15_Qualifying) <= outcome.options.top_k
              => { PosOf(Results[i]) : i \in 1..Len(Results) } = C15_Qualifying
        /\ outcome.options.min_relevance = "Low"
              => Len(Results) = Min(outcome.options.top_k, Len(RanksReplied))
        /\ (/\ RanksReplied = <<"High", "Low", "Medium">>
            /\ outcome.options.min_relevance = "Medium"
            /\ outcome.options.top_k >= 2)
              => PositionsOf(Results) = <<1, 3>>

\* [High, Low, Medium] was searched with the minimum Medium
C15_Witness ==
    /\ SearchReturned
    /\ RanksReplied = <<"High", "Low", "Medium">>
    /\ outcome.options.min_relevance = "Medium"
    /\ PositionsOf(Results) = <<1, 3>>

(***************************************************************************)
(* C16: truncation comes last.                                             *)
(***************************************************************************)
\* the places of the qualifying sections of one rank, in the reply's order
C16_Bucket(rank) ==
    SelectSeq([p \in 1..Len(RanksReplied) |-> p],
              LAMBDA p : RanksReplied[p] = rank /\ p \in C15_Qualifying)

\* the filtered list, sorted stably
C16_SortedFiltered ==
    C16_Bucket("High") \o C16_Bucket("Medium") \o C16_Bucket("Low")

\* C16: search returns the first min(top_k, n) of the n entries of the
\* stably sorted filtered list, top_k being 10 by default, and no section
\* it drops from that list ranks strictly above one it returns
C16_TruncatedLast ==
    SearchReturned =>
        /\ outcome.res.ok
        /\ PositionsOf(Results) =
              SubSeq(C16_SortedFiltered, 1,
                     Min(outcome.options.top_k, Len(C16_SortedFiltered)))
        /\ SearchOptions_default.top_k = 10
        /\ \A p \in C15_Qualifying, i \in 1..Len(Results) :
              (\A k \in 1..Len(Results) : PosOf(Results[k]) # p)
                 => ~Above(RanksReplied[p], Results[i].relevance)

\* a list longer than the default top_k was cut to its 10 best results
C16_Witness ==
    /\ SearchReturned
    /\ outcome.options = SearchOptions_default
    /\ Len(RanksReplied) > 10
    /\ Len(Results) = 10
    /\ Above(Results[1].relevance, Results[10].relevance)

(***************************************************************************)
(* C17: relevance texts.                                                   *)
(***************************************************************************)
\* the relevance the claim gives a text
C17_Expected(text) ==
    IF text \in Casings(<<"h", "i", "g", "h">>) THEN "High"
    ELSE IF text \in Casings(<<"m", "e", "d", "i", "u", "m">>) THEN "Medium"
    ELSE "Low"

\* C17: a search whose reply lists sections never fails on a relevance
\* text, and every result carries High for a casing of "high", Medium for a
\* casing of "medium" and Low for any other text
C17_RelevanceNormalized ==
    SearchReturned =>
        /\ outcome.res.ok
        /\ \A i \in 1..Len(Results) :
              Results[i].relevance =
                  C17_Expected(outcome.reply.sections[PosOf(Results[i])].relevance)

\* a section whose relevance text is "unknown" came back as Low
C17_Witness ==
    /\ SearchReturned
    /\ Len(outcome.reply.sections) = 1
    /\ outcome.reply.sections[1].relevance = <<"u", "n", "k", "n", "o", "w", "n">>
    /\ Len(Results) = 1
    /\ Results[1].relevance = "Low"

(***************************************************************************)
(* C18: the content attached by search_with_content.                       *)
(***************************************************************************)
\* the lines of one page that are no page markers, and the blank line that
\* follows the page
C18_PageLines(page) ==
    SelectSeq(Lines(page.content \o <<"\n">>),
              LAMBDA line : ~StartsWith(line, PhysicalIndexPrefix)) \o << <<>> >>

\* the text of the pages numbered start..end, in document order, trimmed
C18_TextOf(document, start, end) ==
    LET pages == SelectSeq(document.pages,
                           LAMBDA p : start <= p.number /\ p.number <= end)
    IN  Trim(Join(Flatten([i \in 1..Len(pages) |-> C18_PageLines(pages[i])]),
                  <<"\n">>))

\* C18: search_with_content succeeds whenever the reply lists sections, and
\* gives every result the text of the pages p with start_index <= p <=
\* end_index, in document order and without page-marker lines; a result
\* whose range lies outside [1, total_pages] gets empty content
C18_ContentOfRange ==
    (SearchReturned /\ outcome.op = "search_with_content") =>
        /\ outcome.res.ok
        /\ \A i \in 1..Len(Results) :
              /\ Results[i].content =
                    Some(C18_TextOf(outcome.document, Results[i].start_index,
                                    Results[i].end_index))
              /\ (\/ Results[i].end_index < 1
                  \/ Results[i].start_index > page_count(outcome.document))
                    => Results[i].content = Some(<<>>)

(***************************************************************************)
(* C19: the excerpt of a reply that cannot be parsed.                      *)
(***************************************************************************)
\* s is the beginning of t
C19_IsPrefix(s, t) == Len(s) <= Len(t) /\ SubSeq(t, 1, Len(s)) = s

\* C19: a search or an index call whose reply cannot be parsed returns, for
\* every reply text, a collaborator-protocol error that carries the
\* beginning of the raw reply, at most 200 bytes of it, and no results
C19_BoundedExcerpt ==
    (outcome.done /\ outcome.reply.shape = "garbage") =>
        /\ ~outcome.res.panicked
        /\ ~outcome.res.ok
        /\ outcome.res.err = "LlmParse"
        /\ outcome.res.val = <<>>
        /\ C19_IsPrefix(outcome.res.msg, outcome.reply.content)
        /\ ByteLen(outcome.res.msg) <= 200
        /\ ByteLen(outcome.res.msg) = Min(200, ByteLen(outcome.reply.content))

(***************************************************************************)
(* C20: one request per call.                                              *)
(***************************************************************************)
\* the error each failure of the request is reported as
C20_Error(reply) ==
    IF reply.kind = "transport" THEN "Http"
    ELSE IF reply.kind \in {"status", "nochoices"} THEN "LlmApi"
    ELSE "LlmParse"

\* C20: every search and every index call has sent exactly one request,
\* while it waits and when it has returned; when the request failed in transport, with a
\* non-success status or with a reply that cannot be parsed, the caller
\* gets that error back and there was no second request
C20_OneRequest ==
    /\ requests = calls
    /\ (/\ outcome.done
        /\ \/ outcome.reply.kind \in {"transport", "status", "badbody", "nochoices"}
           \/ outcome.reply.shape = "garbage")
          => /\ ~outcome.res.panicked
             /\ ~outcome.res.ok
             /\ outcome.res.err = C20_Error(outcome.reply)

(***************************************************************************)
(* C27: build_tree_from_toc on every descriptor list.                      *)
(***************************************************************************)
\* C27: build_tree_from_toc returns normally for every descriptor list, and
\* the forest it returns has exactly one node per descriptor: none dropped,
\* none duplicated, an empty list giving an empty forest
C27_Total ==
    pc # "input" =>
        /\ pc = "done"
        /\ Cardinality(AllNodes(nodes)) = Len(items)
        /\ { x.node.title : x \in AllNodes(nodes) } = 1..Len(items)

(***************************************************************************)
(* C28: well-formed input gives well-formed ranges.                        *)
(***************************************************************************)
\* the resolved pages rise strictly along the list and lie in 1..total_pages
C28_WellFormedInput ==
    /\ items # <<>>
    /\ \A i \in 2..Len(items) : ResolvedPage(i - 1) < ResolvedPage(i)
    /\ ResolvedPage(1) >= 1
    /\ ResolvedPage(Len(items)) <= total_pages

\* C28: when the resolved pages of the descriptors are strictly increasing,
\* the first at least 1 and the last at most total_pages, every node of the
\* returned tree has 1 <= start_index <= end_index <= total_pages
C28_WellFormedRanges ==
    (Returned /\ C28_WellFormedInput) =>
        \A x \in AllNodes(nodes) :
            /\ 1 <= x.node.start_index
            /\ x.node.start_index <= x.node.end_index
            /\ x.node.end_index <= total_pages

\* a well-formed list of MaxItems descriptors was built into a tree with a
\* nested node whose parent's range was widened to span it
C28_Witness ==
    /\ Returned /\ C28_WellFormedInput
    /\ Len(items) = MaxItems
    /\ \E x \in AllNodes(nodes) :
          /\ x.node.nodes # <<>>
          /\ x.node.end_index = total_pages
          /\ x.node.start_index < x.node.end_index

(***************************************************************************)
(* C23, C24: the documents the constructors make.                          *)
(***************************************************************************)
\* C23: every Document a constructor returns has its pages numbered 1, 2,
\* ... in sequence order: the page at position k has number k
C23_ContiguousPages ==
    (constructed.op # "none" /\ constructed.res.ok) =>
        \A k \in 1..Len(constructed.res.val.pages) : constructed.res.val.pages[k].number = k

\* C24: every constructor called on a text without a non-white-space
\* character returns an error instead of a Document
C24_EmptyIsError ==
    (constructed.op # "none" /\ constructed.text.some /\ Trim(constructed.text.val) = <<>>) =>
        ~constructed.res.ok

(***************************************************************************)
(* C25: --top-k of the search command.                                     *)
(***************************************************************************)
\* the sections of the reply that pass the searcher's relevance filter
C25_Filtered ==
    retain([i \in 1..Len(cli.reply.sections) |->
               [relevance |-> cli.reply.sections[i].rank]],
           SearchOptions_default.min_relevance)

\* C25: for every N >= 1, a search command run with --top-k N whose reply
\* leaves at least N sections after filtering prints exactly N results
C25_PrintsTopK ==
    (/\ cli.stage = "done"
     /\ cli.reply.shape = "sections"
     /\ cli.top_k >= 1
     /\ Len(C25_Filtered) >= cli.top_k)
        => (cli.res.ok /\ Len(cli.res.printed) = cli.top_k)

(***************************************************************************)
(* C26: verification of the page indices by TreeIndexer::index.            *)
(***************************************************************************)
\* C26: with verify_indices true, as by default, an index call that returns
\* a tree with sections has checked the sections' titles against their
\* pages, which takes at least one request to the collaborator after the
\* one that generates the structure
C26_VerifiesIndices ==
    (/\ outcome.op = "index" /\ outcome.done /\ outcome.res.ok
     /\ outcome.res.val.nodes # <<>>
     /\ IndexerOptions_default.verify_indices)
        => index(outcome.document, outcome.reply).sent > 1

(***************************************************************************)
(* C21, C22, C29, C30: the tree cache of the benchmark.                    *)
(***************************************************************************)
\* the events of call t in the log, by kind
EventsOf(kind, t) ==
    { k \in 1..Len(history.log) :
        history.log[k].kind = kind /\ history.log[k].run = task[t].run }

\* call t has come past the build, or past the lookup that found an entry
PastInsert(t) == task[t].pc \in {"searching", "done"}

LastEvent == history.log[Len(history.log)]

\* C21: a run_pageindex call holds the cache lock shared only for the
\* lookup and exclusively only for the insert; while its indexer or
\* searcher call is with the collaborator it holds the lock in neither way
C21_LockDiscipline ==
    \A t \in Tasks :
        /\ t \in readers => task[t].pc = "reading"
        /\ writer = t => task[t].pc = "writing"
        /\ task[t].pc \in {"building", "searching"}
              => (t \notin readers /\ writer # t)

\* a call is building while another holds the lock for its insert, and a
\* call is searching while another holds the lock for its lookup
C21_Witness ==
    \/ \E t, u \in Tasks : task[t].pc = "building" /\ writer = u /\ u # t
    \/ \E t, u \in Tasks : task[t].pc = "searching" /\ u \in readers /\ u # t

\* C22: two calls with the same fingerprint that both missed the cache and
\* both built a tree have both inserted it when they search, and the cache
\* holds the tree of the later insert
C22_BothBuildBothInsert ==
    \A t, u \in Tasks :
        (/\ t # u
         /\ EventsOf("built", t) # {} /\ EventsOf("built", u) # {}
         /\ doc_hash_of(t) = doc_hash_of(u)
         /\ PastInsert(t) /\ PastInsert(u))
            => /\ EventsOf("insert", t) # {} /\ EventsOf("insert", u) # {}
               /\ (\A j \in EventsOf("insert", t), k \in EventsOf("insert", u) :
                      j < k => cache_get(tree_cache, doc_hash_of(u))
                                   = Some(task[u].held))

\* both calls built, to different trees, and the second insert replaced
\* the tree of the first
C22_Witness ==
    /\ PastInsert(1) /\ PastInsert(2)
    /\ EventsOf("built", 1) # {} /\ EventsOf("built", 2) # {}
    /\ doc_hash_of(1) = doc_hash_of(2)
    /\ task[1].held.tree # task[2].held.tree
    /\ \E j \in EventsOf("insert", 1), k \in EventsOf("insert", 2) : j < k
    /\ cache_get(tree_cache, doc_hash_of(1)) = Some(task[2].held)

\* C29: a run_pageindex call whose indexer.index returned an error has
\* returned that error and left the cache as it found it, with no entry for
\* the document's fingerprint, so that a later call with the document
\* misses the cache and builds again
C29_FailedBuild ==
    (/\ history.log # <<>>
     /\ LastEvent.kind = "failed" /\ LastEvent.run = history.runs)
        => /\ task[LastEvent.task].pc = "done"
           /\ ~task[LastEvent.task].res.ok
           /\ task[LastEvent.task].res.err = LastEvent.err
           /\ tree_cache = task[LastEvent.task].before
           /\ ~cache_get(tree_cache, LastEvent.hash).some

\* a call failed to build for a document for which the call before it had
\* failed to build too
C29_Witness ==
    /\ Len(history.log) >= 2
    /\ LastEvent.kind = "failed" /\ LastEvent.run = history.runs
    /\ history.log[1].kind = "failed" /\ history.log[1].run < LastEvent.run
    /\ history.log[1].hash = LastEvent.hash
    /\ task[LastEvent.task].pc = "done"

\* the fingerprints of the items
ItemHashes == { document_hash(BenchItems[i].document) : i \in 1..Len(BenchItems) }

\* with calls one after the other: no fingerprint has two successful
\* builds, no call builds for a fingerprint that was inserted, and a call
\* that searches after a hit searches the tree of the cache
C30_OneBuild ==
    /\ \A h \in ItemHashes :
          Cardinality({ k \in 1..Len(history.log) :
                          history.log[k].kind = "built" /\ history.log[k].hash = h }) <= 1
    /\ \A t \in Tasks :
          task[t].pc = "building"
              => ~\E k \in 1..Len(history.log) :
                     history.log[k].kind = "insert" /\ history.log[k].hash = doc_hash_of(t)
    /\ \A t \in Tasks :
          task[t].pc = "searching"
              => [key |-> doc_hash_of(t), val |-> task[t].held] \in tree_cache

\* no step removes or replaces an entry of the cache
C30_Kept == tree_cache \subseteq tree_cache'

\* C30: when run_pageindex calls do not overlap, a fingerprint is built at
\* most once: after a successful build every later call with the same
\* document finds the entry, does not call the indexer and searches the
\* inserted tree; no entry is ever removed
C30_BuiltOnce == []C30_OneBuild /\ [][C30_Kept]_vars

\* a call built and inserted a tree, and a later call with the same
\* document has searched that tree without an event of its own
C30_Witness ==
    /\ task[1].run >= 2 /\ task[1].pc = "done" /\ task[1].res.ok
    /\ \A k \in 1..Len(history.log) : history.log[k].run # task[1].run
    /\ \E k \in 1..Len(history.log) :
          /\ history.log[k].kind = "insert"
          /\ history.log[k].hash = doc_hash_of(1)
    /\ [key |-> doc_hash_of(1), val |-> task[1].held] \in tree_cache

====
